---- MODULE Spec2Model ----
(***************************************************************************)
(* Model of the download pipeline of obsidian-mini-manager:                *)
(*   FileStateService  - the file-backed id lists and the directory locks  *)
(*   DownloadManager   - the job registry (memory map + one file per job)  *)
(*   MMFDownloader     - the scheduler (processQueue) and the four stage  *)
(*                       workers, with enqueue / cancel / retry / resume   *)
(*   MiniManagerPlugin - recovery at startup                               *)
(* Every step of Spec is one stretch of code between two I/O awaits.  A    *)
(* FileStateService call is one step there: it holds the lock(s) of the    *)
(* set(s) it touches for its whole duration.  SpecLock models the same     *)
(* calls read by read and write by write, with the lock directories.       *)
(***************************************************************************)
EXTENDS Integers, Sequences, FiniteSets, TLC

\* ------------------------------------------------------------------ bounds
NumIds == 2
MaxConcurrentDownloads == 1
MaxConcurrentLightTasks == 1
MaxCalls == 3
MaxFired == 4
MaxResumes == 1
MaxCallsResume == 2
MaxFiredResume == 4
MaxLightTasksA == 2
MaxDownloadsB == 2
MaxLightTasksB == 2
MaxFiredB == 8
MaxRepeats == 1

Ids == 1..NumIds
MaxFifoIds == 3
MaxFifoCalls == 2
MaxInv == MaxResumes + 1

\* ------------------------------------------------------------ state names
Q00 == "00_queued"
S10 == "10_validating"
R20 == "20_validated"
S30 == "30_preparing"
R40 == "40_prepared"
S50 == "50_downloading_images"
R60 == "60_images_downloaded"
S70 == "70_downloading"
C80 == "80_completed"

ActiveSets == {S10, S30, S50, S70}
RestSets == {Q00, R20, R40, R60}
FailureSets == {"failed", "failure_auth", "failure_code_403", "failure_code_404"}
StageSets == ActiveSets \cup RestSets \cup {C80, "cancelled"} \cup FailureSets
SetNames == StageSets \cup {"all"}

JobStatus == {"pending", Q00, S10, R20, S30, R40, S50, R60, S70, C80,
              "failed", "cancelled", "downloading", "extracting"}
NoJob == "none"

\* ------------------------------------------------- FileStateService (pure)
RECURSIVE Dedup(_)
Dedup(s) ==
    IF s = <<>> THEN <<>>
    ELSE LET r == Dedup(SubSeq(s, 1, Len(s) - 1))
         IN  IF \E i \in 1..Len(r) : r[i] = s[Len(s)] THEN r ELSE Append(r, s[Len(s)])

Has(s, id) == \E i \in 1..Len(s) : s[i] = id

Without(s, id) == SelectSeq(s, LAMBDA x : x # id)

\* (mutation) add() appends the id without looking for it
AddIdsAppend(ids, id) == Append(ids, id)

\* (mutation) add() puts the new id in front
AddIdsFront(ids, id) == IF Has(Dedup(ids), id) THEN ids ELSE <<id>> \o Dedup(ids)

\* the list written by add(): Array.from(new Set(ids).add(id)), or no write
AddIds(ids, id) == IF Has(Dedup(ids), id) THEN ids ELSE Append(Dedup(ids), id)

\* the list written by remove(): the filtered list, or no write
RemoveIds(ids, id) == Without(ids, id)

Add(st, name, id) == [st EXCEPT ![name] = AddIds(@, id)]

Remove(st, name, id) == [st EXCEPT ![name] = RemoveIds(@, id)]

Move(st, from, to, id) ==
    LET afterRemove == IF from # to /\ Has(st[from], id)
                       THEN [st EXCEPT ![from] = Without(@, id)]
                       ELSE st
    IN  [afterRemove EXCEPT ![to] = AddIds(@, id)]

GetAll(st, name) == st[name]

\* pop(): the first id leaves the list; <<list written, id returned>>
Pop(st, name) ==
    IF Len(st[name]) = 0 THEN <<st, <<>>>>
    ELSE <<[st EXCEPT ![name] = Tail(@)], <<Head(st[name])>>>>

\* ------------------------------------------------- DownloadManager (pure)
UpdateJob(j, f, id, status) ==
    IF j[id] # NoJob \/ f[id] # NoJob
    THEN <<[j EXCEPT ![id] = status], [f EXCEPT ![id] = status]>>
    ELSE <<j, f>>

\* ------------------------------------------------------------------ state
VARIABLES
    sets,                   \* states/<name>.txt : the id list of every set
    unknownLog,             \* states/failure_unknown.txt : ids of its "id:message" lines
    jobs,                   \* DownloadManager.jobs : id -> status, or NoJob
    jobFiles,               \* jobs/<id>.json : id -> status, or NoJob
    isPaused, isProcessing, isFileDownloadsPaused,
    cancellationTokens,     \* id -> the worker whose AbortController is registered, or 0
    wk,                     \* the running stage workers
    pq,                     \* the running invocations of processQueue
    dl, cn, rm,             \* per id: downloadObject / cancelDownload / removeJob in flight
    clr,                    \* clearCompleted / clearFailed in flight: its ids and position
    calls, resumes,         \* external calls / calls of resumeDownloads still to be made
    fired,                  \* stage workers still to be started
    phase,                  \* "run" | "crashed" | "recovered"
    locks, proc,            \* SpecLock: lock directories and FileStateService callers
    settings,               \* MiniManagerSettings: the two pool sizes
    lastCall,               \* history: the last external call and what it found
    sets0,                  \* history: the set files when the callers of SpecLock started
    queuedAt403             \* history: the ids in 00_queued when a file fetch answered 403

pipeVars == <<sets, unknownLog, jobs, jobFiles, isPaused, isProcessing, isFileDownloadsPaused,
              cancellationTokens, wk, pq, dl, cn, rm, clr, calls, resumes, fired, phase>>
lockVars == <<locks, proc, sets0>>
vars == <<sets, unknownLog, jobs, jobFiles, isPaused, isProcessing, isFileDownloadsPaused,
          cancellationTokens, wk, pq, dl, cn, rm, calls, resumes, fired, phase, locks, proc,
          lastCall, sets0, settings, queuedAt403, clr>>

IdleInv == [pc |-> "idle", slots |-> 0, cnt |-> 0, oid |-> 0]

\* what cancelDownload finds: the stage-sets that hold the id, the stages of its workers
InStage(st, id) == {n \in StageSets : Has(st[n], id)}

Running(ws, id) == {w.stage : w \in {x \in ws : x.id = id}}

NoCall == [op |-> "none", id |-> 0, at |-> {}, running |-> {}, ids |-> {}]

NoClear == [op |-> "none", pc |-> 0, ids |-> {}]

Called(op, id) ==
    lastCall' = [op |-> op, id |-> id,
                 at |-> IF op = "cancel" THEN InStage(sets, id) ELSE {},
                 running |-> IF op = "cancel" THEN Running(wk, id) ELSE {},
                 ids |-> {}]

InitFiles ==
    /\ sets = [n \in SetNames |-> <<>>]
    /\ unknownLog = <<>>

InitMemory ==
    /\ jobs = [i \in Ids |-> NoJob]
    /\ jobFiles = [i \in Ids |-> NoJob]
    /\ isPaused = FALSE
    /\ isProcessing = FALSE
    /\ isFileDownloadsPaused = FALSE
    /\ cancellationTokens = [i \in Ids |-> 0]
    /\ wk = {}
    /\ pq = [i \in 1..MaxInv |-> IdleInv]
    /\ dl = [i \in Ids |-> "idle"]
    /\ cn = [i \in Ids |-> 0]
    /\ rm = [i \in Ids |-> 0]
    /\ clr = NoClear
    /\ phase = "run"
    /\ lastCall = NoCall
    /\ queuedAt403 = {}

InitPipe == InitFiles /\ InitMemory

\* ------------------------------------------------- MMFDownloader: scheduler
FreeInv(q) == CHOOSE i \in 1..MaxInv : q[i].pc = "idle" /\ \A k \in 1..(i - 1) : q[k].pc # "idle"

\* processQueue up to its first await: <<isProcessing', pq'>>
ProcessQueueHead(paused, processing, q) ==
    IF paused \/ processing
    THEN <<processing, q>>
    ELSE <<TRUE, [q EXCEPT ![FreeInv(q)] = [IdleInv EXCEPT !.pc = "h70"]]>>

Trigger(paused) ==
    /\ isProcessing' = ProcessQueueHead(paused, isProcessing, pq)[1]
    /\ pq' = ProcessQueueHead(paused, isProcessing, pq)[2]

\* workers are told apart by their id and a number n (an AbortController's identity)
Used(ws, id) == {w.n : w \in {x \in ws : x.id = id}}
FreshN(ws, id) == CHOOSE n \in 1..(Cardinality(ws) + 1) :
                      n \notin Used(ws, id) /\ \A k \in 1..(n - 1) : k \in Used(ws, id)
Replace(ws, w, new) == (ws \ {w}) \cup {new}

StageSet(stage) ==
    CASE stage = "val" -> S10 [] stage = "prep" -> S30 [] stage = "img" -> S50 [] stage = "file" -> S70

FirstPc(stage) ==
    CASE stage = "val" -> "v_validate" [] stage = "prep" -> "p_fetch"
      [] stage = "img" -> "i_images" [] stage = "file" -> "f_files"

\* a stage worker from its call to its first I/O await: the AbortController is
\* registered; validate / prepare call updateJob, images / files first read the job
FireWorker(stage, id) ==
    LET n == FreshN(wk, id)
        upd == UpdateJob(jobs, jobFiles, id, StageSet(stage))
    IN  /\ fired > 0
        /\ fired' = fired - 1
        /\ cancellationTokens' = [cancellationTokens EXCEPT ![id] = n]
        /\ IF stage \in {"img", "file"} /\ jobs[id] = NoJob
           THEN /\ wk' = wk \cup {[id |-> id, n |-> n, stage |-> stage, pc |-> "e_store",
                                   aborted |-> FALSE, err |-> "unknown"]}
                /\ UNCHANGED <<jobs, jobFiles>>
           ELSE /\ wk' = wk \cup {[id |-> id, n |-> n, stage |-> stage, pc |-> FirstPc(stage),
                                   aborted |-> FALSE, err |-> "none"]}
                /\ jobs' = upd[1]
                /\ jobFiles' = upd[2]

\* finally { this.isProcessing = false }
EndInvocation(i) ==
    /\ pq' = [pq EXCEPT ![i] = IdleInv]
    /\ isProcessing' = FALSE

\* line 167-172: getAll('70_downloading'), the free heavy slots, the file-pause flag
PQReadDownloading(i) ==
    /\ pq[i].pc = "h70"
    /\ LET free == settings.maxConcurrentDownloads - Len(GetAll(sets, S70))
           slots == IF isFileDownloadsPaused THEN 0 ELSE free
       IN  pq' = [pq EXCEPT ![i].slots = slots, ![i].pc = IF slots > 0 THEN "h60" ELSE "l10"]
    /\ UNCHANGED <<sets, unknownLog, jobs, jobFiles, isPaused, isProcessing, isFileDownloadsPaused,
                   cancellationTokens, wk, dl, cn, rm, calls, resumes, fired, phase, locks, proc, lastCall, sets0, settings, queuedAt403, clr>>

\* line 174-176: getAll('60_images_downloaded')
PQReadReadyForFiles(i) ==
    /\ pq[i].pc = "h60"
    /\ LET ready == GetAll(sets, R60)
       IN  pq' = [pq EXCEPT ![i].oid = IF Len(ready) > 0 THEN ready[1] ELSE 0,
                            ![i].pc = IF Len(ready) > 0 THEN "hmove" ELSE "l10"]
    /\ UNCHANGED <<sets, unknownLog, jobs, jobFiles, isPaused, isProcessing, isFileDownloadsPaused,
                   cancellationTokens, wk, dl, cn, rm, calls, resumes, fired, phase, locks, proc, lastCall, sets0, settings, queuedAt403, clr>>

\* line 177-179: move to 70_downloading, fire runFileDownload (a single dispatch: `if`)
PQDispatchFile(i) ==
    /\ pq[i].pc = "hmove"
    /\ sets' = Move(sets, R60, S70, pq[i].oid)
    /\ FireWorker("file", pq[i].oid)
    /\ pq' = [pq EXCEPT ![i].slots = @ - 1, ![i].oid = 0, ![i].pc = "l10"]
    /\ UNCHANGED <<unknownLog, isPaused, isProcessing, isFileDownloadsPaused,
                   dl, cn, rm, calls, resumes, phase, locks, proc, lastCall, sets0, settings, queuedAt403, clr>>

LightCounted == <<S10, S30, S50>>

\* line 184-187: the three getAll calls that count the active light tasks
PQCountLight(i) ==
    /\ pq[i].pc \in {"l10", "l30", "l50"}
    /\ LET k == CASE pq[i].pc = "l10" -> 1 [] pq[i].pc = "l30" -> 2 [] pq[i].pc = "l50" -> 3
           cnt == (IF k = 1 THEN 0 ELSE pq[i].cnt) + Len(GetAll(sets, LightCounted[k]))
           slots == settings.maxConcurrentLightTasks - cnt
       IN  IF k < 3
           THEN /\ pq' = [pq EXCEPT ![i].cnt = cnt, ![i].pc = IF k = 1 THEN "l30" ELSE "l50"]
                /\ UNCHANGED isProcessing
           ELSE IF slots > 0
                THEN /\ pq' = [pq EXCEPT ![i].cnt = 0, ![i].slots = slots, ![i].pc = "r1"]
                     /\ UNCHANGED isProcessing
                ELSE EndInvocation(i)
    /\ UNCHANGED <<sets, unknownLog, jobs, jobFiles, isPaused, isFileDownloadsPaused,
                   cancellationTokens, wk, dl, cn, rm, calls, resumes, fired, phase, locks, proc, lastCall, sets0, settings, queuedAt403, clr>>

\* (mutation) the light loop looks at 00_queued first
LightOrderQueuedFirst == <<[rest |-> Q00, active |-> S10, stage |-> "val"],
                           [rest |-> R20, active |-> S30, stage |-> "prep"],
                           [rest |-> R40, active |-> S50, stage |-> "img"]>>

\* the light loop's order: 40_prepared, then 20_validated, then 00_queued
LightOrder == <<[rest |-> R40, active |-> S50, stage |-> "img"],
                [rest |-> R20, active |-> S30, stage |-> "prep"],
                [rest |-> Q00, active |-> S10, stage |-> "val"]>>

ReadPc == <<"r1", "r2", "r3">>
MovePc == <<"m1", "m2", "m3">>

\* line 191-192, 200-201, 209-210, 218: getAll of the k-th rest set
PQReadReady(i, k) ==
    /\ pq[i].pc = ReadPc[k]
    /\ LET ready == GetAll(sets, LightOrder[k].rest)
       IN  IF Len(ready) > 0
           THEN /\ pq' = [pq EXCEPT ![i].oid = ready[1], ![i].pc = MovePc[k]]
                /\ UNCHANGED isProcessing
           ELSE IF k < 3
                THEN /\ pq' = [pq EXCEPT ![i].pc = ReadPc[k + 1]]
                     /\ UNCHANGED isProcessing
                ELSE EndInvocation(i)
    /\ UNCHANGED <<sets, unknownLog, jobs, jobFiles, isPaused, isFileDownloadsPaused,
                   cancellationTokens, wk, dl, cn, rm, calls, resumes, fired, phase, locks, proc, lastCall, sets0, settings, queuedAt403, clr>>

\* line 193-197, 202-206, 211-215: move into the active set, fire the worker, loop
PQDispatchLight(i, k) ==
    /\ pq[i].pc = MovePc[k]
    /\ sets' = Move(sets, LightOrder[k].rest, LightOrder[k].active, pq[i].oid)
    /\ FireWorker(LightOrder[k].stage, pq[i].oid)
    /\ IF pq[i].slots - 1 > 0
       THEN /\ pq' = [pq EXCEPT ![i].slots = @ - 1, ![i].oid = 0, ![i].pc = "r1"]
            /\ UNCHANGED isProcessing
       ELSE EndInvocation(i)
    /\ UNCHANGED <<unknownLog, isPaused, isFileDownloadsPaused,
                   dl, cn, rm, calls, resumes, phase, locks, proc, lastCall, sets0, settings, queuedAt403, clr>>

\* ------------------------------------------- MMFDownloader: stage workers
\* (mutation) the finally block only drops the token
FinallyTokenOnly(w, paused) ==
    /\ cancellationTokens' = [cancellationTokens EXCEPT ![w.id] = 0]
    /\ wk' = wk \ {w}
    /\ UNCHANGED <<isProcessing, pq>>

\* finally { cancellationTokens.delete(objectId); this.processQueue() }
Finally(w, paused) ==
    /\ cancellationTokens' = [cancellationTokens EXCEPT ![w.id] = 0]
    /\ wk' = wk \ {w}
    /\ Trigger(paused)

FailureState(err) ==
    CASE err = "auth" -> "failure_auth"
      [] err = "http403" -> "failure_code_403"
      [] err = "http404" -> "failure_code_404"
      [] OTHER -> "failure_unknown"

\* (mutation) runErrorHandler treats an AbortError like any other error
ThrowRouted(w, err) ==
    /\ wk' = Replace(wk, w, [w EXCEPT !.pc = "e_store", !.err = err])
    /\ isPaused' = (isPaused \/ err = "auth")
    /\ UNCHANGED <<cancellationTokens, isProcessing, pq>>

\* an error reaches the catch block of a validate / prepare / images worker:
\* runErrorHandler up to its first await (AbortError: nothing; AuthenticationError:
\* handleAuthError), or, when it awaits nothing, up to the end of finally
Throw(w, err) ==
    IF err = "abort"
    THEN /\ Finally(w, isPaused)
         /\ UNCHANGED isPaused
    ELSE /\ wk' = Replace(wk, w, [w EXCEPT !.pc = "e_store", !.err = err])
         /\ isPaused' = (isPaused \/ err = "auth")
         /\ UNCHANGED <<cancellationTokens, isProcessing, pq>>

ValOutcomes == {"null", "valid", "invalid", "unknown"}
PrepOutcomes == {"ok", "auth", "http403", "http404", "unknown"}
ImgOutcomes == {"ok", "unknown", "html"}
FileOutcomes == {"ok", "http403", "unknown", "html"}

\* runValidation line 259-263: validateAndGetResult returned (or threw)
ValidateDone(w, res) ==
    /\ w.pc = "v_validate"
    /\ res \in ValOutcomes
    /\ IF res = "unknown"
       THEN /\ Throw(w, "unknown")
            /\ UNCHANGED <<jobs, jobFiles>>
       ELSE /\ wk' = Replace(wk, w, [w EXCEPT !.pc = IF res = "valid" THEN "v_completed" ELSE "v_validated"])
            /\ jobs' = IF res = "valid" THEN UpdateJob(jobs, jobFiles, w.id, C80)[1] ELSE jobs
            /\ jobFiles' = IF res = "valid" THEN UpdateJob(jobs, jobFiles, w.id, C80)[2] ELSE jobFiles
            /\ UNCHANGED <<cancellationTokens, isPaused, isProcessing, pq>>
    /\ UNCHANGED <<sets, unknownLog, isFileDownloadsPaused, dl, cn, rm, calls, resumes,
                   fired, phase, locks, proc, lastCall, sets0, settings, queuedAt403, clr>>

\* (mutation) the validation moves name the destination as their source
MoveAfterKeep(pc) ==
    CASE pc = "v_completed" -> <<C80, C80>>
      [] pc = "v_validated" -> <<R20, R20>>
      [] pc = "p_move" -> <<S30, R40>>
      [] pc = "i_move" -> <<S50, R60>>
      [] pc = "f_move" -> <<S70, C80>>

\* the move that ends a stage (line 264, 269, 273, 314, 339, 380), then finally
MoveAfter(pc) ==
    CASE pc = "v_completed" -> <<S10, C80>>
      [] pc = "v_validated" -> <<S10, R20>>
      [] pc = "p_move" -> <<S30, R40>>
      [] pc = "i_move" -> <<S50, R60>>
      [] pc = "f_move" -> <<S70, C80>>

StageMove(w) ==
    /\ w.pc \in {"v_completed", "v_validated", "p_move", "i_move", "f_move"}
    /\ sets' = Move(sets, MoveAfter(w.pc)[1], MoveAfter(w.pc)[2], w.id)
    /\ Finally(w, isPaused)
    /\ UNCHANGED <<unknownLog, jobs, jobFiles, isPaused, isFileDownloadsPaused, dl, cn, rm,
                   calls, resumes, fired, phase, locks, proc, lastCall, sets0, settings, queuedAt403, clr>>

\* runPreparation line 293-307: getObjectById returned (or threw), abort check,
\* getJob, updateJobObject, updateJob
PrepareFetched(w, res) ==
    /\ w.pc = "p_fetch"
    /\ res \in PrepOutcomes
    /\ IF res # "ok"
       THEN /\ Throw(w, res)
            /\ UNCHANGED <<jobs, jobFiles>>
       ELSE IF w.aborted
       THEN /\ Throw(w, "abort")
            /\ UNCHANGED <<jobs, jobFiles>>
       ELSE IF jobs[w.id] = NoJob
       THEN /\ Throw(w, "unknown")
            /\ UNCHANGED <<jobs, jobFiles>>
       ELSE /\ wk' = Replace(wk, w, [w EXCEPT !.pc = "p_folders"])
            /\ jobs' = UpdateJob(jobs, jobFiles, w.id, S30)[1]
            /\ jobFiles' = UpdateJob(jobs, jobFiles, w.id, S30)[2]
            /\ UNCHANGED <<cancellationTokens, isPaused, isProcessing, pq>>
    /\ UNCHANGED <<sets, unknownLog, isFileDownloadsPaused, dl, cn, rm, calls, resumes,
                   fired, phase, locks, proc, lastCall, sets0, settings, queuedAt403, clr>>

\* runPreparation line 308-311: folder and metadata written, abort check
PrepareFolders(w) ==
    /\ w.pc = "p_folders"
    /\ IF w.aborted
       THEN Throw(w, "abort")
       ELSE /\ wk' = Replace(wk, w, [w EXCEPT !.pc = "p_move"])
            /\ UNCHANGED <<cancellationTokens, isPaused, isProcessing, pq>>
    /\ UNCHANGED <<sets, unknownLog, jobs, jobFiles, isFileDownloadsPaused, dl, cn, rm,
                   calls, resumes, fired, phase, locks, proc, lastCall, sets0, settings, queuedAt403, clr>>

\* runImageDownload line 333-337: downloadImages returned (or threw); a text/html
\* answer calls handleAuthError and throws a plain Error
ImagesDone(w, res) ==
    /\ w.pc = "i_images"
    /\ res \in ImgOutcomes \cup (IF w.aborted THEN {"abort"} ELSE {})
    /\ IF res = "ok"
       THEN /\ wk' = Replace(wk, w, [w EXCEPT !.pc = "i_move"])
            /\ UNCHANGED <<cancellationTokens, isPaused, isProcessing, pq>>
       ELSE IF res = "html"
       THEN /\ wk' = Replace(wk, w, [w EXCEPT !.pc = "e_store", !.err = "unknown"])
            /\ isPaused' = TRUE
            /\ UNCHANGED <<cancellationTokens, isProcessing, pq>>
       ELSE Throw(w, res)
    /\ UNCHANGED <<sets, unknownLog, jobs, jobFiles, isFileDownloadsPaused, dl, cn, rm,
                   calls, resumes, fired, phase, locks, proc, lastCall, sets0, settings, queuedAt403, clr>>

\* runFileDownload line 358-362: downloadFiles returned (or threw); a 403 calls
\* pauseFileDownloads and throws HttpError; the catch block then awaits the
\* emergency instructions before runErrorHandler
FilesDone(w, res) ==
    /\ w.pc = "f_files"
    /\ res \in FileOutcomes \cup (IF w.aborted THEN {"abort"} ELSE {})
    /\ wk' = Replace(wk, w, [w EXCEPT !.pc = IF res = "ok" THEN "f_meta" ELSE "e_handle",
                                      !.err = CASE res = "ok" -> "none"
                                                [] res = "html" -> "unknown"
                                                [] OTHER -> res])
    /\ isPaused' = (isPaused \/ res = "html")
    /\ isFileDownloadsPaused' = (isFileDownloadsPaused \/ res = "http403")
    /\ queuedAt403' = IF res = "http403"
                      THEN queuedAt403 \cup {id \in Ids : Has(sets[Q00], id)}
                      ELSE queuedAt403
    /\ UNCHANGED <<sets, unknownLog, jobs, jobFiles, cancellationTokens, isProcessing, pq,
                   dl, cn, rm, calls, resumes, fired, phase, locks, proc, lastCall, sets0, settings, clr>>

\* runFileDownload line 365-379: metadata files written, updateJob('80_completed')
FilesMetadata(w) ==
    /\ w.pc = "f_meta"
    /\ wk' = Replace(wk, w, [w EXCEPT !.pc = "f_move"])
    /\ jobs' = UpdateJob(jobs, jobFiles, w.id, C80)[1]
    /\ jobFiles' = UpdateJob(jobs, jobFiles, w.id, C80)[2]
    /\ UNCHANGED <<sets, unknownLog, cancellationTokens, isPaused, isProcessing,
                   isFileDownloadsPaused, pq, dl, cn, rm, calls, resumes, fired, phase, locks, proc, lastCall, sets0, settings, queuedAt403, clr>>

\* runFileDownload line 383-393: the emergency instructions are written,
\* runErrorHandler starts
FilesCatch(w) ==
    /\ w.pc = "e_handle"
    /\ Throw(w, w.err)
    /\ UNCHANGED <<sets, unknownLog, jobs, jobFiles, isFileDownloadsPaused, dl, cn, rm,
                   calls, resumes, fired, phase, locks, proc, lastCall, sets0, settings, queuedAt403, clr>>

\* runErrorHandler line 241-249: addUnknownFailure or move(fromState, failureState),
\* updateJob('failed') when the registry has the job; then finally
ErrorStore(w) ==
    /\ w.pc = "e_store"
    /\ IF FailureState(w.err) = "failure_unknown"
       THEN /\ unknownLog' = Append(unknownLog, w.id)
            /\ UNCHANGED sets
       ELSE /\ sets' = Move(sets, StageSet(w.stage), FailureState(w.err), w.id)
            /\ UNCHANGED unknownLog
    /\ IF jobs[w.id] # NoJob
       THEN /\ jobs' = UpdateJob(jobs, jobFiles, w.id, "failed")[1]
            /\ jobFiles' = UpdateJob(jobs, jobFiles, w.id, "failed")[2]
       ELSE UNCHANGED <<jobs, jobFiles>>
    /\ Finally(w, isPaused)
    /\ UNCHANGED <<isPaused, isFileDownloadsPaused, dl, cn, rm, calls, resumes, fired, phase,
                   locks, proc, lastCall, sets0, settings, queuedAt403, clr>>

\* ------------------------------------------- MMFDownloader: external calls
\* the user acts one call at a time: a call is made when the previous one, and the
\* removeJob it started, have ended (the modal itself awaits none of its calls; the
\* scheduler and the workers run concurrently with the call in every interleaving)
UserIdle == clr.op = "none" /\ \A i \in Ids : dl[i] = "idle" /\ cn[i] = 0 /\ rm[i] = 0

\* downloadObject is called (modal, search, bulk file)
DownloadObjectCall(id) ==
    /\ calls > 0
    /\ UserIdle
    /\ dl' = [dl EXCEPT ![id] = "d1"]
    /\ calls' = calls - 1
    /\ Called("enqueue", id)
    /\ UNCHANGED <<sets, unknownLog, jobs, jobFiles, isPaused, isProcessing,
                   isFileDownloadsPaused, cancellationTokens, wk, pq, cn, rm, resumes,
                   fired, phase, locks, proc, sets0, settings, queuedAt403, clr>>

\* (mutation) downloadObject without its add('all')
DownloadObjectNoAll(id) ==
    /\ dl[id] = "d1"
    /\ jobs' = [jobs EXCEPT ![id] = "pending"]
    /\ jobFiles' = [jobFiles EXCEPT ![id] = "pending"]
    /\ dl' = [dl EXCEPT ![id] = "d2"]
    /\ UNCHANGED <<sets, unknownLog, isPaused, isProcessing, isFileDownloadsPaused,
                   cancellationTokens, wk, pq, cn, rm, calls, resumes, fired, phase, locks, proc, lastCall, sets0, settings, queuedAt403, clr>>

\* downloadObject line 81-95: add('all'), then addJob (status 'pending')
DownloadObjectAll(id) ==
    /\ dl[id] = "d1"
    /\ sets' = Add(sets, "all", id)
    /\ jobs' = [jobs EXCEPT ![id] = "pending"]
    /\ jobFiles' = [jobFiles EXCEPT ![id] = "pending"]
    /\ dl' = [dl EXCEPT ![id] = "d2"]
    /\ UNCHANGED <<unknownLog, isPaused, isProcessing, isFileDownloadsPaused,
                   cancellationTokens, wk, pq, cn, rm, calls, resumes, fired, phase, locks, proc, lastCall, sets0, settings, queuedAt403, clr>>

\* downloadObject line 96-101: return when paused, else updateJob('00_queued')
DownloadObjectCheck(id) ==
    /\ dl[id] = "d2"
    /\ IF isPaused
       THEN /\ dl' = [dl EXCEPT ![id] = "idle"]
            /\ UNCHANGED <<jobs, jobFiles>>
       ELSE /\ dl' = [dl EXCEPT ![id] = "d3"]
            /\ jobs' = UpdateJob(jobs, jobFiles, id, Q00)[1]
            /\ jobFiles' = UpdateJob(jobs, jobFiles, id, Q00)[2]
    /\ UNCHANGED <<sets, unknownLog, isPaused, isProcessing, isFileDownloadsPaused,
                   cancellationTokens, wk, pq, cn, rm, calls, resumes, fired, phase, locks, proc, lastCall, sets0, settings, queuedAt403, clr>>

\* downloadObject line 102-103: add('00_queued'), processQueue
DownloadObjectQueue(id) ==
    /\ dl[id] = "d3"
    /\ sets' = Add(sets, Q00, id)
    /\ dl' = [dl EXCEPT ![id] = "idle"]
    /\ Trigger(isPaused)
    /\ UNCHANGED <<unknownLog, jobs, jobFiles, isPaused, isFileDownloadsPaused,
                   cancellationTokens, wk, cn, rm, calls, resumes, fired, phase, locks, proc, lastCall, sets0, settings, queuedAt403, clr>>

\* the statuses for which DownloadManagerModal.renderJobs offers Cancel
Cancellable == {"pending", S70, S30, S50, S10, R20, R40, R60, Q00}

CancelSources == <<Q00, S10, S30, S50, S70>>

\* cancelDownload line 138-142: abort the registered controller
CancelDownloadCall(id) ==
    /\ calls > 0
    /\ jobs[id] \in Cancellable
    /\ UserIdle
    /\ wk' = {IF w.id = id /\ w.n = cancellationTokens[id]
               THEN [w EXCEPT !.aborted = TRUE] ELSE w : w \in wk}
    /\ cn' = [cn EXCEPT ![id] = 1]
    /\ calls' = calls - 1
    /\ Called("cancel", id)
    /\ UNCHANGED <<sets, unknownLog, jobs, jobFiles, isPaused, isProcessing,
                   isFileDownloadsPaused, cancellationTokens, pq, dl, rm, resumes, fired, phase,
                   locks, proc, sets0, settings, queuedAt403, clr>>

\* cancelDownload line 145-154: moveAcrossStates, one move per step; after the last
\* one removeJob is started (not awaited) and processQueue is called
CancelDownloadMove(id) ==
    /\ cn[id] \in 1..Len(CancelSources)
    /\ sets' = Move(sets, CancelSources[cn[id]], "cancelled", id)
    /\ IF cn[id] < Len(CancelSources)
       THEN /\ cn' = [cn EXCEPT ![id] = @ + 1]
            /\ UNCHANGED <<rm, isProcessing, pq>>
       ELSE /\ cn' = [cn EXCEPT ![id] = 0]
            /\ rm' = [rm EXCEPT ![id] = 1]
            /\ Trigger(isPaused)
    /\ UNCHANGED <<unknownLog, jobs, jobFiles, isPaused, isFileDownloadsPaused,
                   cancellationTokens, wk, dl, calls, resumes, fired, phase, locks, proc, lastCall, sets0, settings, queuedAt403, clr>>

RemoveJobSets == <<Q00, S70, C80, "failed", "cancelled", S10>>

\* DownloadManager.removeJob line 101-105: add('all'), jobs.delete
RemoveJobAll(id) ==
    /\ rm[id] = 1
    /\ sets' = Add(sets, "all", id)
    /\ jobs' = [jobs EXCEPT ![id] = NoJob]
    /\ rm' = [rm EXCEPT ![id] = 2]
    /\ UNCHANGED <<unknownLog, jobFiles, isPaused, isProcessing, isFileDownloadsPaused,
                   cancellationTokens, wk, pq, dl, cn, calls, resumes, fired, phase, locks, proc, lastCall, sets0, settings, queuedAt403, clr>>

\* DownloadManager.removeJob line 106: the job file is removed
RemoveJobFile(id) ==
    /\ rm[id] = 2
    /\ jobFiles' = [jobFiles EXCEPT ![id] = NoJob]
    /\ rm' = [rm EXCEPT ![id] = 3]
    /\ UNCHANGED <<sets, unknownLog, jobs, isPaused, isProcessing, isFileDownloadsPaused,
                   cancellationTokens, wk, pq, dl, cn, calls, resumes, fired, phase, locks, proc, lastCall, sets0, settings, queuedAt403, clr>>

\* DownloadManager.removeJob line 108-113: one remove per step
RemoveJobSet(id) ==
    /\ rm[id] \in 3..(2 + Len(RemoveJobSets))
    /\ sets' = Remove(sets, RemoveJobSets[rm[id] - 2], id)
    /\ rm' = [rm EXCEPT ![id] = IF @ = 2 + Len(RemoveJobSets) THEN 0 ELSE @ + 1]
    /\ UNCHANGED <<unknownLog, jobs, jobFiles, isPaused, isProcessing, isFileDownloadsPaused,
                   cancellationTokens, wk, pq, dl, cn, calls, resumes, fired, phase, locks, proc, lastCall, sets0, settings, queuedAt403, clr>>

\* DownloadManagerModal.retryDownload: removeJob (not awaited), then downloadObject
RetryDownload(id) ==
    /\ calls > 0
    /\ jobs[id] = "failed"
    /\ UserIdle
    /\ rm' = [rm EXCEPT ![id] = 1]
    /\ dl' = [dl EXCEPT ![id] = "d1"]
    /\ calls' = calls - 1
    /\ Called("retry", id)
    /\ UNCHANGED <<sets, unknownLog, jobs, jobFiles, isPaused, isProcessing,
                   isFileDownloadsPaused, cancellationTokens, wk, pq, cn, resumes, fired, phase,
                   locks, proc, sets0, settings, queuedAt403, clr>>

\* DownloadManagerModal: the Clear button of a completed job calls removeJob
ClearJob(id) ==
    /\ calls > 0
    /\ jobs[id] = C80
    /\ UserIdle
    /\ rm' = [rm EXCEPT ![id] = 1]
    /\ calls' = calls - 1
    /\ Called("clear", id)
    /\ UNCHANGED <<sets, unknownLog, jobs, jobFiles, isPaused, isProcessing,
                   isFileDownloadsPaused, cancellationTokens, wk, pq, dl, cn, resumes, fired, phase,
                   locks, proc, sets0, settings, queuedAt403, clr>>

\* resumeDownloads line 38-49
ResumeDownloads ==
    /\ resumes > 0
    /\ resumes' = resumes - 1
    /\ isPaused' = FALSE
    /\ isFileDownloadsPaused' = FALSE
    /\ isProcessing' = ProcessQueueHead(FALSE, FALSE, pq)[1]
    /\ pq' = ProcessQueueHead(FALSE, FALSE, pq)[2]
    /\ UNCHANGED <<sets, unknownLog, jobs, jobFiles, cancellationTokens, wk, dl, cn, rm,
                   calls, fired, phase, locks, proc, lastCall, sets0, settings, queuedAt403, clr>>

\* pauseDownloads line 51-57
PauseDownloads ==
    /\ calls > 0
    /\ UserIdle
    /\ ~isPaused
    /\ isPaused' = TRUE
    /\ calls' = calls - 1
    /\ Called("pause", 0)
    /\ UNCHANGED <<sets, unknownLog, jobs, jobFiles, isProcessing, isFileDownloadsPaused,
                   cancellationTokens, wk, pq, dl, cn, rm, resumes, fired, phase, locks, proc, sets0, settings, queuedAt403, clr>>

\* ------------------------------------------- DownloadManager: bulk clearing
\* FileStateService.bulkRemove(states, ids): the ids leave each of the states
BulkRemove(st, states, ids) ==
    [n \in SetNames |-> IF n \in states THEN SelectSeq(st[n], LAMBDA x : x \notin ids) ELSE st[n]]

\* FileStateService.bulkRemoveJobs(ids): the job files of the ids are deleted
BulkRemoveJobs(f, ids) == [i \in Ids |-> IF i \in ids THEN NoJob ELSE f[i]]

\* the status clearCompleted / clearFailed selects, the states it passes to bulkRemove
ClearStatus(op) == IF op = "clearCompleted" THEN C80 ELSE "failed"

ClearStates(op) ==
    IF op = "clearCompleted" THEN {C80} ELSE {"failed", Q00, S70, C80, "cancelled", S10}

\* clearCompleted line 119-125, clearFailed line 150-156: the ids are collected from
\* the registry (the buttons are disabled when there is none)
ClearCall(op) ==
    /\ calls > 0
    /\ UserIdle
    /\ {id \in Ids : jobs[id] = ClearStatus(op)} # {}
    /\ clr' = [op |-> op, pc |-> 1, ids |-> {id \in Ids : jobs[id] = ClearStatus(op)}]
    /\ calls' = calls - 1
    /\ lastCall' = [NoCall EXCEPT !.op = op, !.ids = {id \in Ids : jobs[id] = ClearStatus(op)}]
    /\ UNCHANGED <<sets, unknownLog, jobs, jobFiles, isPaused, isProcessing,
                   isFileDownloadsPaused, cancellationTokens, wk, pq, dl, cn, rm, resumes,
                   fired, phase, locks, proc, sets0, settings, queuedAt403>>

\* clearCompleted line 127, clearFailed line 158: bulkRemove
ClearBulkRemove ==
    /\ clr.pc = 1
    /\ sets' = BulkRemove(sets, ClearStates(clr.op), clr.ids)
    /\ clr' = [clr EXCEPT !.pc = 2]
    /\ UNCHANGED <<unknownLog, jobs, jobFiles, isPaused, isProcessing, isFileDownloadsPaused,
                   cancellationTokens, wk, pq, dl, cn, rm, calls, resumes, fired, phase,
                   locks, proc, lastCall, sets0, settings, queuedAt403>>

\* clearCompleted line 128, clearFailed line 159: bulkRemoveJobs
ClearBulkRemoveJobs ==
    /\ clr.pc = 2
    /\ jobFiles' = BulkRemoveJobs(jobFiles, clr.ids)
    /\ clr' = [clr EXCEPT !.pc = 3]
    /\ UNCHANGED <<sets, unknownLog, jobs, isPaused, isProcessing, isFileDownloadsPaused,
                   cancellationTokens, wk, pq, dl, cn, rm, calls, resumes, fired, phase,
                   locks, proc, lastCall, sets0, settings, queuedAt403>>

\* clearCompleted line 130-138, clearFailed line 161-164: jobs.delete of every id
ClearDelete ==
    /\ clr.pc = 3
    /\ jobs' = [i \in Ids |-> IF i \in clr.ids THEN NoJob ELSE jobs[i]]
    /\ clr' = NoClear
    /\ UNCHANGED <<sets, unknownLog, jobFiles, isPaused, isProcessing, isFileDownloadsPaused,
                   cancellationTokens, wk, pq, dl, cn, rm, calls, resumes, fired, phase,
                   locks, proc, lastCall, sets0, settings, queuedAt403>>

\* ---------------------------------------------------------- specification
Scheduler ==
    \E i \in 1..MaxInv :
        \/ PQReadDownloading(i)
        \/ PQReadReadyForFiles(i)
        \/ PQDispatchFile(i)
        \/ PQCountLight(i)
        \/ \E k \in 1..3 : PQReadReady(i, k)
        \/ \E k \in 1..3 : PQDispatchLight(i, k)

Workers ==
    \E w \in wk :
        \/ \E res \in ValOutcomes : ValidateDone(w, res)
        \/ \E res \in PrepOutcomes : PrepareFetched(w, res)
        \/ PrepareFolders(w)
        \/ \E res \in ImgOutcomes \cup {"abort"} : ImagesDone(w, res)
        \/ \E res \in FileOutcomes \cup {"abort"} : FilesDone(w, res)
        \/ FilesMetadata(w)
        \/ FilesCatch(w)
        \/ StageMove(w)
        \/ ErrorStore(w)

Enqueue ==
    \E id \in Ids :
        \/ DownloadObjectCall(id)
        \/ DownloadObjectAll(id)
        \/ DownloadObjectCheck(id)
        \/ DownloadObjectQueue(id)

Pending ==
    \E id \in Ids :
        \/ CancelDownloadMove(id)
        \/ RemoveJobAll(id)
        \/ RemoveJobFile(id)
        \/ RemoveJobSet(id)

Calls ==
    \/ \E id \in Ids : CancelDownloadCall(id)
    \/ \E id \in Ids : RetryDownload(id)
    \/ \E id \in Ids : ClearJob(id)
    \/ PauseDownloads

\* the pool sizes of Spec, SpecResume and SpecCrash
SmallPools == [maxConcurrentDownloads |-> MaxConcurrentDownloads,
               maxConcurrentLightTasks |-> MaxConcurrentLightTasks]

InitLockIdle ==
    /\ locks = {}
    /\ proc = <<>>
    /\ sets0 = [n \in SetNames |-> <<>>]

\* the pipeline under enqueue, cancel, retry, clear and pause
Init ==
    /\ InitPipe
    /\ InitLockIdle
    /\ settings = SmallPools
    /\ calls = MaxCalls
    /\ fired = MaxFired
    /\ resumes = 0

Next == Scheduler \/ Workers \/ Enqueue \/ Pending \/ Calls

Spec == Init /\ [][Next]_vars

\* the same pipeline when resumeDownloads may be called at any moment
InitResume ==
    /\ InitPipe
    /\ InitLockIdle
    /\ settings = SmallPools
    /\ calls = MaxCallsResume
    /\ fired = MaxFiredResume
    /\ resumes = MaxResumes

NextResume == Scheduler \/ Workers \/ Enqueue \/ ResumeDownloads

SpecResume == InitResume /\ [][NextResume]_vars

\* the pipeline under enqueue, clearCompleted and clearFailed
Clear ==
    \/ ClearCall("clearCompleted")
    \/ ClearCall("clearFailed")
    \/ ClearBulkRemove
    \/ ClearBulkRemoveJobs
    \/ ClearDelete

NextClear == Scheduler \/ Workers \/ Enqueue \/ Clear

SpecClear == Init /\ [][NextClear]_vars

\* ------------------------------------------------ crash and startup recovery
\* getAllJobIds: the union of every file of the states directory, all.txt included
\* (a line of failure_unknown.txt is "id:message", never an id)
GetAllJobIds(st) == {id \in Ids : \E n \in SetNames : Has(st[n], id)}

\* DownloadManager.loadAllJobs: the registry is filled from the job files of those ids
LoadAllJobs(st, f) == [id \in Ids |-> IF id \in GetAllJobIds(st) THEN f[id] ELSE NoJob]

\* recoverOrphanedJobs from job file k on, known being the ids getAllJobIds
\* returned before the loop: <<sets, jobs, jobFiles>>
RECURSIVE RecoverOrphanedJobs(_, _, _, _, _)
RecoverOrphanedJobs(st, j, f, known, k) ==
    IF k > NumIds THEN <<st, j, f>>
    ELSE IF f[k] = NoJob \/ k \in known THEN RecoverOrphanedJobs(st, j, f, known, k + 1)
    ELSE IF j[k] # NoJob /\ j[k] \notin {C80, "failed", "cancelled"}
    THEN RecoverOrphanedJobs(Add(st, Q00, k), UpdateJob(j, f, k, Q00)[1],
                             UpdateJob(j, f, k, Q00)[2], known, k + 1)
    ELSE IF j[k] = NoJob THEN RecoverOrphanedJobs(Add(st, Q00, k), j, f, known, k + 1)
    ELSE RecoverOrphanedJobs(st, j, f, known, k + 1)

TransientStates == <<S10, R20, S30, R40, S50, R60, S70>>

\* resumeInterruptedDownloads, the ids of one state: <<sets, jobs, jobFiles>>
RECURSIVE RequeueIds(_, _, _, _, _)
RequeueIds(st, j, f, from, ids) ==
    IF ids = <<>> THEN <<st, j, f>>
    ELSE LET id == Head(ids)
             upd == IF j[id] # NoJob THEN UpdateJob(j, f, id, Q00) ELSE <<j, f>>
         IN  RequeueIds(Move(st, from, Q00, id), upd[1], upd[2], from, Tail(ids))

\* resumeInterruptedDownloads from the k-th transient state on
RECURSIVE ResumeInterruptedDownloads(_, _, _, _)
ResumeInterruptedDownloads(st, j, f, k) ==
    IF k > Len(TransientStates) THEN <<st, j, f>>
    ELSE LET r == RequeueIds(st, j, f, TransientStates[k], GetAll(st, TransientStates[k]))
         IN  ResumeInterruptedDownloads(r[1], r[2], r[3], k + 1)

\* the moves that are about to be made: <<from, to, id>>
PendingMoves ==
    {<<R60, S70, pq[i].oid>> : i \in {x \in 1..MaxInv : pq[x].pc = "hmove"}}
    \cup UNION {{<<LightOrder[k].rest, LightOrder[k].active, pq[i].oid>> :
                    i \in {x \in 1..MaxInv : pq[x].pc = MovePc[k]}} : k \in 1..3}
    \cup {<<MoveAfter(w.pc)[1], MoveAfter(w.pc)[2], w.id>> :
              w \in {x \in wk : x.pc \in {"v_completed", "v_validated", "p_move", "i_move", "f_move"}}}
    \cup {<<CancelSources[cn[id]], "cancelled", id>> : id \in {x \in Ids : cn[x] > 0}}

\* the process dies: what is in memory is gone, the files stay
MemoryLost ==
    /\ phase' = "crashed"
    /\ jobs' = [i \in Ids |-> NoJob]
    /\ isPaused' = FALSE
    /\ isProcessing' = FALSE
    /\ isFileDownloadsPaused' = FALSE
    /\ cancellationTokens' = [i \in Ids |-> 0]
    /\ wk' = {}
    /\ pq' = [i \in 1..MaxInv |-> IdleInv]
    /\ dl' = [i \in Ids |-> "idle"]
    /\ cn' = [i \in Ids |-> 0]
    /\ rm' = [i \in Ids |-> 0]
    /\ calls' = 0
    /\ fired' = 0
    /\ lastCall' = NoCall
    /\ clr' = NoClear
    /\ UNCHANGED <<unknownLog, jobFiles, resumes, locks, proc, sets0, settings, queuedAt403>>

Crash ==
    /\ phase = "run"
    /\ MemoryLost
    /\ UNCHANGED sets

\* the process dies inside move(), after the source file is written and before the
\* destination file is
CrashMidMove ==
    /\ phase = "run"
    /\ \E m \in PendingMoves :
          /\ m[1] # m[2]
          /\ Has(sets[m[1]], m[3])
          /\ sets' = [sets EXCEPT ![m[1]] = Without(@, m[3])]
    /\ MemoryLost

\* MiniManagerPlugin.onload: loadAllJobs, recoverOrphanedJobs,
\* resumeInterruptedDownloads, resumeDownloads
Recover ==
    /\ phase = "crashed"
    /\ phase' = "recovered"
    /\ LET loaded == LoadAllJobs(sets, jobFiles)
           r1 == RecoverOrphanedJobs(sets, loaded, jobFiles, GetAllJobIds(sets), 1)
           r2 == ResumeInterruptedDownloads(r1[1], r1[2], r1[3], 1)
       IN  /\ sets' = r2[1]
           /\ jobs' = r2[2]
           /\ jobFiles' = r2[3]
    /\ isPaused' = FALSE
    /\ isFileDownloadsPaused' = FALSE
    /\ isProcessing' = ProcessQueueHead(FALSE, FALSE, pq)[1]
    /\ pq' = ProcessQueueHead(FALSE, FALSE, pq)[2]
    /\ UNCHANGED <<unknownLog, cancellationTokens, wk, dl, cn, rm, calls, resumes, fired,
                   locks, proc, lastCall, sets0, settings, queuedAt403, clr>>

\* the pipeline of Spec, one crash at any moment, then startup
NextCrash ==
    \/ phase = "run" /\ Next
    \/ Crash
    \/ CrashMidMove
    \/ Recover

SpecCrash == Init /\ [][NextCrash]_vars

\* ------------------------------------------------------ audit validation
\* the audit button: ValidationService.validate finds the folder of object id
ValidateCall(id) ==
    /\ calls > 0
    /\ UserIdle
    /\ clr' = [op |-> "validate", pc |-> 4, ids |-> {id}]
    /\ calls' = calls - 1
    /\ lastCall' = [NoCall EXCEPT !.op = "validate", !.id = id]
    /\ UNCHANGED <<sets, unknownLog, jobs, jobFiles, isPaused, isProcessing,
                   isFileDownloadsPaused, cancellationTokens, wk, pq, dl, cn, rm, resumes,
                   fired, phase, locks, proc, sets0, settings, queuedAt403>>

\* validate line 45-48: validateObject, then add('all')
ValidateAll ==
    /\ clr.op = "validate" /\ clr.pc = 4
    /\ sets' = [sets EXCEPT !["all"] = AddIds(@, CHOOSE id \in clr.ids : TRUE)]
    /\ clr' = [clr EXCEPT !.pc = 5]
    /\ UNCHANGED <<unknownLog, jobs, jobFiles, isPaused, isProcessing, isFileDownloadsPaused,
                   cancellationTokens, wk, pq, dl, cn, rm, calls, resumes, fired, phase,
                   locks, proc, lastCall, sets0, settings, queuedAt403>>

\* validate line 49-52: add('80_completed') when the folder was found valid
ValidateCompleted ==
    /\ clr.op = "validate" /\ clr.pc = 5
    /\ \E isValid \in BOOLEAN :
          sets' = IF isValid THEN Add(sets, C80, CHOOSE id \in clr.ids : TRUE) ELSE sets
    /\ clr' = NoClear
    /\ UNCHANGED <<unknownLog, jobs, jobFiles, isPaused, isProcessing, isFileDownloadsPaused,
                   cancellationTokens, wk, pq, dl, cn, rm, calls, resumes, fired, phase,
                   locks, proc, lastCall, sets0, settings, queuedAt403>>

Audit ==
    \/ \E id \in Ids : ValidateCall(id)
    \/ ValidateAll
    \/ ValidateCompleted

\* the pipeline with the audit, one crash at any moment, then startup
NextAudit ==
    \/ NextCrash
    \/ phase = "run" /\ Audit

SpecAudit == Init /\ [][NextAudit]_vars

\* ------------------------------------- FileStateService, lock by lock (SpecLock)
\* two callers, each inside one call of FileStateService
Callers == {1, 2}

\* the names the callers pass: two sets and an alias of the first
LockNames == {Q00, S10, "queued"}

\* STATE_PREFIX_MAP[state] || state
GetActualStateName(state) ==
    CASE state = "queued" -> Q00
      [] state = "validating" -> S10
      [] state = "validated" -> R20
      [] state = "preparing" -> S30
      [] state = "prepared" -> R40
      [] state = "downloading_images" -> S50
      [] state = "images_downloaded" -> R60
      [] state = "downloading" -> S70
      [] state = "completed" -> C80
      [] OTHER -> state

\* the lock directory and the set file are named after the actual state name
GetLockFilePath(state) == GetActualStateName(state)

GetStateFilePath(state) == GetActualStateName(state)

\* the order of Array.prototype.sort on the names (UTF-16 code units)
SortOrder == <<Q00, S10, R20, S30, R40, S50, R60, S70, C80,
               "all", "cancelled", "completed", "downloading", "downloading_images",
               "failed", "failure_auth", "failure_code_403", "failure_code_404",
               "failure_unknown", "images_downloaded", "prepared", "preparing",
               "queued", "validated", "validating">>

Rank(name) == CHOOSE i \in 1..Len(SortOrder) : SortOrder[i] = name

\* (mutation) the two names in the order of the arguments
Unsorted(fromState, toState) == <<fromState, toState>>

\* [fromState, toState].sort()
SortStates(fromState, toState) ==
    IF Rank(fromState) <= Rank(toState) THEN <<fromState, toState>> ELSE <<toState, fromState>>

CallChoices ==
    {[op |-> o, from |-> n, to |-> n, id |-> i] : o \in {"add", "remove"}, n \in LockNames, i \in Ids}
    \cup {[op |-> "move", from |-> a, to |-> b, id |-> i] : a \in LockNames, b \in LockNames, i \in Ids}
    \cup {[op |-> o, from |-> n, to |-> n, id |-> 0] : o \in {"pop", "getAll"}, n \in LockNames}
    \cup {[op |-> "addUnknownFailure", from |-> "failure_unknown", to |-> "failure_unknown", id |-> i] :
             i \in Ids}

StartCaller(call) ==
    [op |-> call.op, from |-> call.from, to |-> call.to, id |-> call.id,
     pc |-> "acq1", ids |-> <<>>, held |-> {}, res |-> <<>>]

\* the duplicate-free lists a set file may hold when the callers start
InitContents ==
    {<<>>} \cup {<<i>> : i \in Ids} \cup {<<p[1], p[2]>> : p \in {x \in Ids \X Ids : x[1] # x[2]}}

TwoLocks(p) == p.op = "move" /\ SortStates(p.from, p.to)[1] # SortStates(p.from, p.to)[2]

\* the state whose lock the caller is acquiring or releasing
LockState(p) ==
    IF p.op = "move" /\ p.pc \in {"acq2", "rel2"} THEN SortStates(p.from, p.to)[2]
    ELSE IF p.op = "move" THEN SortStates(p.from, p.to)[1]
    ELSE p.from

lockFrame == <<jobs, jobFiles, isPaused, isProcessing, isFileDownloadsPaused, cancellationTokens,
               wk, pq, dl, cn, rm, calls, resumes, fired, phase, lastCall, sets0, settings, queuedAt403, clr>>

Waiting(p) == p.pc \in {"acq1", "acq2"} /\ GetLockFilePath(LockState(p)) \in locks

\* (mutation) mkdir succeeds on a directory that exists
AcquireLockNoWait(c) ==
    /\ proc[c].pc \in {"acq1", "acq2"}
    /\ locks' = locks \cup {GetLockFilePath(LockState(proc[c]))}
    /\ proc' = [proc EXCEPT ![c].held = @ \cup {GetLockFilePath(LockState(proc[c]))},
                            ![c].pc = IF proc[c].pc = "acq1" /\ TwoLocks(proc[c]) THEN "acq2"
                                      ELSE IF proc[c].op = "move" /\ proc[c].from # proc[c].to
                                      THEN "readFrom"
                                      ELSE "read"]
    /\ UNCHANGED <<sets, unknownLog>>
    /\ UNCHANGED lockFrame

\* acquireLock: mkdir of the lock directory succeeds when it does not exist
AcquireLock(c) ==
    /\ proc[c].pc \in {"acq1", "acq2"}
    /\ GetLockFilePath(LockState(proc[c])) \notin locks
    /\ locks' = locks \cup {GetLockFilePath(LockState(proc[c]))}
    /\ proc' = [proc EXCEPT ![c].held = @ \cup {GetLockFilePath(LockState(proc[c]))},
                            ![c].pc = IF proc[c].pc = "acq1" /\ TwoLocks(proc[c]) THEN "acq2"
                                      ELSE IF proc[c].op = "move" /\ proc[c].from # proc[c].to
                                      THEN "readFrom"
                                      ELSE "read"]
    /\ UNCHANGED <<sets, unknownLog>>
    /\ UNCHANGED lockFrame

\* (mutation) the timeout is swallowed: the call goes on without the lock
LockTimeoutSwallowed(c) ==
    /\ proc[c].pc \in {"acq1", "acq2"}
    /\ GetLockFilePath(LockState(proc[c])) \in locks
    /\ proc' = [proc EXCEPT ![c].pc = IF proc[c].op = "move" /\ proc[c].from # proc[c].to
                                      THEN "readFrom" ELSE "read"]
    /\ UNCHANGED <<sets, unknownLog, locks>>
    /\ UNCHANGED lockFrame

\* acquireLock gives up after lockTimeout: the directory has existed for that long,
\* which takes a holder that makes no step (it waits itself, or it has ended)
LockTimeout(c) ==
    /\ Waiting(proc[c])
    /\ \A d \in Callers :
          GetLockFilePath(LockState(proc[c])) \in proc[d].held =>
              (d = c \/ Waiting(proc[d]) \/ proc[d].pc \in {"done", "failed"})
    /\ proc' = [proc EXCEPT ![c].pc = "failed"]
    /\ UNCHANGED <<sets, unknownLog, locks>>
    /\ UNCHANGED lockFrame

\* (mutation) move leaves its source as it is
ReadSourceSkip(c) ==
    /\ proc[c].pc = "readFrom"
    /\ proc' = [proc EXCEPT ![c].pc = "read"]
    /\ UNCHANGED <<sets, unknownLog, locks>>
    /\ UNCHANGED lockFrame

\* move line 194-200: the source list is read; it is written when it holds the id
ReadSource(c) ==
    /\ proc[c].pc = "readFrom"
    /\ LET fromIds == sets[GetStateFilePath(proc[c].from)]
       IN  proc' = [proc EXCEPT ![c].ids = IF Has(fromIds, proc[c].id)
                                           THEN Without(fromIds, proc[c].id) ELSE <<>>,
                                ![c].pc = IF Has(fromIds, proc[c].id) THEN "writeFrom" ELSE "read"]
    /\ UNCHANGED <<sets, unknownLog, locks>>
    /\ UNCHANGED lockFrame

WriteSource(c) ==
    /\ proc[c].pc = "writeFrom"
    /\ sets' = [sets EXCEPT ![GetStateFilePath(proc[c].from)] = proc[c].ids]
    /\ proc' = [proc EXCEPT ![c].ids = <<>>, ![c].pc = "read"]
    /\ UNCHANGED <<unknownLog, locks>>
    /\ UNCHANGED lockFrame

Release(p) == IF TwoLocks(p) THEN "rel2" ELSE "rel1"

\* getIds of the (destination) set, and what the call decides to write
ReadIds(c) ==
    /\ proc[c].pc = "read"
    /\ LET p == proc[c]
           ids == IF p.op = "addUnknownFailure" THEN unknownLog ELSE sets[GetStateFilePath(p.to)]
       IN  proc' =
             CASE p.op \in {"add", "move"} ->
                    IF AddIds(ids, p.id) # ids
                    THEN [proc EXCEPT ![c].ids = AddIds(ids, p.id), ![c].pc = "write"]
                    ELSE [proc EXCEPT ![c].pc = Release(p)]
               [] p.op = "remove" ->
                    IF Len(RemoveIds(ids, p.id)) < Len(ids)
                    THEN [proc EXCEPT ![c].ids = RemoveIds(ids, p.id), ![c].pc = "write"]
                    ELSE [proc EXCEPT ![c].pc = Release(p)]
               [] p.op = "pop" ->
                    IF Len(ids) = 0
                    THEN [proc EXCEPT ![c].pc = Release(p)]
                    ELSE [proc EXCEPT ![c].ids = Tail(ids), ![c].res = <<Head(ids)>>, ![c].pc = "write"]
               [] p.op = "getAll" ->
                    [proc EXCEPT ![c].res = ids, ![c].pc = Release(p)]
               [] p.op = "addUnknownFailure" ->
                    [proc EXCEPT ![c].ids = Append(ids, p.id), ![c].pc = "write"]
    /\ UNCHANGED <<sets, unknownLog, locks>>
    /\ UNCHANGED lockFrame

\* writeIds (adapter.write for failure_unknown)
WriteIds(c) ==
    /\ proc[c].pc = "write"
    /\ IF proc[c].op = "addUnknownFailure"
       THEN /\ unknownLog' = proc[c].ids
            /\ UNCHANGED sets
       ELSE /\ sets' = [sets EXCEPT ![GetStateFilePath(proc[c].to)] = proc[c].ids]
            /\ UNCHANGED unknownLog
    /\ proc' = [proc EXCEPT ![c].ids = <<>>, ![c].pc = Release(proc[c])]
    /\ UNCHANGED locks
    /\ UNCHANGED lockFrame

\* releaseLock: rmdir of the lock directory
ReleaseLock(c) ==
    /\ proc[c].pc \in {"rel2", "rel1"}
    /\ locks' = locks \ {GetLockFilePath(LockState(proc[c]))}
    /\ proc' = [proc EXCEPT ![c].held = @ \ {GetLockFilePath(LockState(proc[c]))},
                            ![c].pc = IF proc[c].pc = "rel2" THEN "rel1" ELSE "done"]
    /\ UNCHANGED <<sets, unknownLog>>
    /\ UNCHANGED lockFrame

InitLock ==
    /\ InitMemory
    /\ \E q \in InitContents, v \in InitContents :
          sets = [n \in SetNames |-> IF n = Q00 THEN q ELSE IF n = S10 THEN v ELSE <<>>]
    /\ sets0 = sets
    /\ settings = SmallPools
    /\ unknownLog = <<>>
    /\ calls = 0 /\ fired = 0 /\ resumes = 0
    /\ locks = {}
    /\ proc \in [Callers -> {StartCaller(call) : call \in CallChoices}]

NextLock ==
    \E c \in Callers :
        \/ AcquireLock(c)
        \/ LockTimeout(c)
        \/ ReadSource(c)
        \/ WriteSource(c)
        \/ ReadIds(c)
        \/ WriteIds(c)
        \/ ReleaseLock(c)

SpecLock == InitLock /\ [][NextLock]_vars

\* Scenario A: one downloadObject, no pause, no stage raises an error, no other call,
\* for every size of the light pool up to MaxLightTasksA.
\* Every continuation that is ready is run by the event loop: weak fairness.
InitA ==
    /\ InitPipe
    /\ InitLockIdle
    /\ settings \in [maxConcurrentDownloads : 1..MaxConcurrentDownloads,
                       maxConcurrentLightTasks : 1..MaxLightTasksA]
    /\ calls = 1
    /\ fired = MaxFired
    /\ resumes = 0

WorkersA ==
    \E w \in wk :
        \/ ValidateDone(w, "null")
        \/ PrepareFetched(w, "ok")
        \/ PrepareFolders(w)
        \/ ImagesDone(w, "ok")
        \/ FilesDone(w, "ok")
        \/ FilesMetadata(w)
        \/ StageMove(w)

NextA == Scheduler \/ WorkersA \/ Enqueue

SpecA == InitA /\ [][NextA]_vars /\ WF_vars(NextA)

\* Scenario B: every id is enqueued once, a file fetch answers 200 or 403, nothing
\* else fails and no other call is made, for heavy and light pools of up to
\* MaxDownloadsB and MaxLightTasksB slots
InitB ==
    /\ InitPipe
    /\ InitLockIdle
    /\ settings \in [maxConcurrentDownloads : 1..MaxDownloadsB,
                       maxConcurrentLightTasks : 1..MaxLightTasksB]
    /\ calls = NumIds
    /\ fired = MaxFiredB
    /\ resumes = 0

WorkersB ==
    \E w \in wk :
        \/ ValidateDone(w, "null")
        \/ PrepareFetched(w, "ok")
        \/ PrepareFolders(w)
        \/ ImagesDone(w, "ok")
        \/ \E res \in {"ok", "http403"} : FilesDone(w, res)
        \/ FilesMetadata(w)
        \/ FilesCatch(w)
        \/ StageMove(w)
        \/ ErrorStore(w)

\* downloadObject is called for ids that have no job yet
EnqueueB ==
    \E id \in Ids :
        \/ jobs[id] = NoJob /\ DownloadObjectCall(id)
        \/ DownloadObjectAll(id)
        \/ DownloadObjectCheck(id)
        \/ DownloadObjectQueue(id)

NextB == Scheduler \/ WorkersB \/ EnqueueB

SpecB == InitB /\ [][NextB]_vars /\ WF_vars(NextB)

\* ------------------------------------------------ image downloads (SpecImages)
MaxImages == 2

\* what one downloadSingleImage call meets: the file is there already, a 200 answer
\* with image data, another status, or a text/html body
ImageResults == {"exists", "ok", "status", "html"}

ImageLists == UNION {[1..n -> ImageResults] : n \in 0..MaxImages}

\* downloadImages line 636-659 over downloadSingleImage line 681-731: the images
\* are fetched one by one; downloadSingleImage writes its placeholder and throws
\* again, and the loop has no catch
RECURSIVE DownloadImages(_)
DownloadImages(rs) ==
    IF rs = <<>> THEN "ok"
    ELSE IF Head(rs) = "status" THEN "unknown"
    ELSE IF Head(rs) = "html" THEN "html"
    ELSE DownloadImages(Tail(rs))

\* enqueue only: no cancel (no abort) and no job is ever removed
WorkersImages ==
    \E w \in wk :
        \/ ValidateDone(w, "null")
        \/ PrepareFetched(w, "ok")
        \/ PrepareFolders(w)
        \/ \E rs \in ImageLists : ImagesDone(w, DownloadImages(rs))
        \/ FilesDone(w, "ok")
        \/ FilesMetadata(w)
        \/ StageMove(w)
        \/ ErrorStore(w)

NextImages == Scheduler \/ WorkersImages \/ EnqueueB

SpecImages == InitB /\ [][NextImages]_vars

\* ---------------------------------------------------- file downloads (SpecFetch)
MaxFiles == 2

\* one entry of object.files.items and what the disk and the server hold for it:
\* download_url present, size over the 1.5 GB limit, target file on disk, the answer
\* a request would get
FileItems == [url : BOOLEAN, big : BOOLEAN, exists : BOOLEAN,
              resp : {"ok", "403", "status", "html"}]

FileLists == UNION {[1..n -> FileItems] : n \in 0..MaxFiles}

NoFetch == [requested |-> {}, satisfied |-> {}, failedAt |-> 0, outcome |-> "none"]

\* the loop of downloadFiles from item k on: the items a request was made for, the
\* items counted in downloadedFiles, the item that threw and how the call ended
RECURSIVE DownloadFilesFrom(_, _, _, _)
DownloadFilesFrom(items, direct, k, acc) ==
    IF k > Len(items) THEN [acc EXCEPT !.outcome = "ok"]
    ELSE IF ~items[k].url \/ ~direct THEN DownloadFilesFrom(items, direct, k + 1, acc)
    ELSE IF items[k].big THEN [acc EXCEPT !.failedAt = k, !.outcome = "unknown"]
    ELSE IF items[k].exists
    THEN DownloadFilesFrom(items, direct, k + 1, [acc EXCEPT !.satisfied = @ \cup {k}])
    ELSE IF items[k].resp = "ok"
    THEN DownloadFilesFrom(items, direct, k + 1,
                           [acc EXCEPT !.requested = @ \cup {k}, !.satisfied = @ \cup {k}])
    ELSE [acc EXCEPT !.requested = @ \cup {k}, !.failedAt = k,
                     !.outcome = CASE items[k].resp = "403" -> "http403"
                                   [] items[k].resp = "html" -> "html"
                                   [] OTHER -> "unknown"]

DownloadFiles(items, direct) == DownloadFilesFrom(items, direct, 1, NoFetch)

\* id 1 has been dispatched to the file stage: it is in 70_downloading and
\* runFileDownload(1) is about to call downloadFiles
InitFetch ==
    /\ sets = [n \in SetNames |-> IF n \in {"all", S70} THEN <<1>> ELSE <<>>]
    /\ unknownLog = <<>>
    /\ jobs = [i \in Ids |-> IF i = 1 THEN S70 ELSE NoJob]
    /\ jobFiles = jobs
    /\ isPaused = FALSE
    /\ isProcessing = FALSE
    /\ isFileDownloadsPaused = FALSE
    /\ cancellationTokens = [i \in Ids |-> IF i = 1 THEN 1 ELSE 0]
    /\ wk = {[id |-> 1, n |-> 1, stage |-> "file", pc |-> "f_files", aborted |-> FALSE,
              err |-> "none"]}
    /\ pq = [i \in 1..MaxInv |-> IdleInv]
    /\ dl = [i \in Ids |-> "idle"]
    /\ cn = [i \in Ids |-> 0]
    /\ rm = [i \in Ids |-> 0]
    /\ clr = NoClear
    /\ phase = "run"
    /\ lastCall = NoCall
    /\ queuedAt403 = {}
    /\ locks = {}
    /\ sets0 = sets
    /\ calls = 0 /\ fired = 0 /\ resumes = 0
    /\ \E direct \in BOOLEAN :
          settings = [maxConcurrentDownloads |-> MaxConcurrentDownloads,
                      maxConcurrentLightTasks |-> MaxConcurrentLightTasks,
                      useDirectDownload |-> direct]
    /\ \E items \in FileLists : proc = [pc |-> "start", items |-> items, res |-> NoFetch]

\* runFileDownload line 361: downloadFiles runs to its return or its throw
DownloadFilesRun ==
    /\ proc.pc = "start"
    /\ proc' = [proc EXCEPT !.pc = "ran",
                            !.res = DownloadFiles(proc.items, settings.useDirectDownload)]
    /\ UNCHANGED <<sets, unknownLog, jobs, jobFiles, isPaused, isProcessing,
                   isFileDownloadsPaused, cancellationTokens, wk, pq, dl, cn, rm, calls,
                   resumes, fired, phase, locks, lastCall, sets0, settings, queuedAt403, clr>>

\* runFileDownload goes on with what downloadFiles returned or threw
FilesReturn == \E w \in wk : proc.pc = "ran" /\ FilesDone(w, proc.res.outcome)

WorkersFetch ==
    \E w \in wk :
        \/ FilesMetadata(w)
        \/ FilesCatch(w)
        \/ StageMove(w)
        \/ ErrorStore(w)

NextFetch == DownloadFilesRun \/ FilesReturn \/ WorkersFetch

SpecFetch == InitFetch /\ [][NextFetch]_vars

\* ------------------------------------------- registry listeners (SpecNotify)
MaxListeners == 3

\* the subscribed listeners in subscription order: TRUE for one that throws
ListenerLists == UNION {[1..n -> BOOLEAN] : n \in 0..MaxListeners}

\* notifyListeners: listeners.forEach(listener => listener(jobs)); the listeners
\* that were called and whether the exception of one left the loop
NotifyListeners(ls) ==
    LET throwing == {k \in 1..Len(ls) : ls[k]}
        first == IF throwing = {} THEN 0
                 ELSE CHOOSE k \in throwing : \A m \in throwing : k <= m
    IN  [called |-> IF first = 0 THEN 1..Len(ls) ELSE 1..first, threw |-> first # 0]

ManagerOps == {"addJob", "updateJob", "updateJobObject", "removeJob",
               "clearCompleted", "clearFailed"}

RECURSIVE RemoveFromAll(_, _, _)
RemoveFromAll(st, names, id) ==
    IF names = <<>> THEN st ELSE RemoveFromAll(Remove(st, Head(names), id), Tail(names), id)

\* a mutating call of DownloadManager up to its notifyListeners: the files, the
\* registry, and whether the call gets to notifyListeners
ManagerEffect(op, id, st, j, f) ==
    LET ids == {i \in Ids : j[i] = ClearStatus(op)}
    IN  CASE op = "addJob" ->
                 [sets |-> st, jobs |-> [j EXCEPT ![id] = "pending"],
                  jobFiles |-> [f EXCEPT ![id] = "pending"], notifies |-> TRUE]
          [] op = "updateJob" ->
                 [sets |-> st, jobs |-> UpdateJob(j, f, id, Q00)[1],
                  jobFiles |-> UpdateJob(j, f, id, Q00)[2],
                  notifies |-> (j[id] # NoJob \/ f[id] # NoJob)]
          [] op = "updateJobObject" ->
                 [sets |-> st, jobs |-> j, jobFiles |-> f,
                  notifies |-> (j[id] # NoJob \/ f[id] # NoJob)]
          [] op = "removeJob" ->
                 [sets |-> RemoveFromAll(Add(st, "all", id), RemoveJobSets, id),
                  jobs |-> [j EXCEPT ![id] = NoJob],
                  jobFiles |-> [f EXCEPT ![id] = NoJob], notifies |-> TRUE]
          [] OTHER ->
                 IF ids = {} THEN [sets |-> st, jobs |-> j, jobFiles |-> f, notifies |-> FALSE]
                 ELSE [sets |-> BulkRemove(st, ClearStates(op), ids),
                       jobs |-> [i \in Ids |-> IF i \in ids THEN NoJob ELSE j[i]],
                       jobFiles |-> BulkRemoveJobs(f, ids), notifies |-> TRUE]

\* job 1 is not there, queued, completed or failed; a mutating call is about to be
\* made with some listeners subscribed
InitNotify ==
    /\ \E status \in {NoJob, Q00, C80, "failed"} :
          /\ sets = [n \in SetNames |-> IF status # NoJob /\ n \in {"all", status}
                                        THEN <<1>> ELSE <<>>]
          /\ jobs = [i \in Ids |-> IF i = 1 THEN status ELSE NoJob]
    /\ jobFiles = jobs
    /\ unknownLog = <<>>
    /\ isPaused = FALSE
    /\ isProcessing = FALSE
    /\ isFileDownloadsPaused = FALSE
    /\ cancellationTokens = [i \in Ids |-> 0]
    /\ wk = {}
    /\ pq = [i \in 1..MaxInv |-> IdleInv]
    /\ dl = [i \in Ids |-> "idle"]
    /\ cn = [i \in Ids |-> 0]
    /\ rm = [i \in Ids |-> 0]
    /\ clr = NoClear
    /\ phase = "run"
    /\ lastCall = NoCall
    /\ queuedAt403 = {}
    /\ locks = {}
    /\ sets0 = sets
    /\ settings = SmallPools
    /\ calls = 0 /\ fired = 0 /\ resumes = 0
    /\ \E op \in ManagerOps, ls \in ListenerLists :
          proc = [op |-> op, id |-> 1, listeners |-> ls, pc |-> "start",
                  notified |-> FALSE, called |-> {}, threw |-> FALSE]

\* the call runs to its end: its writes, then notifyListeners
ManagerCall ==
    /\ proc.pc = "start"
    /\ LET eff == ManagerEffect(proc.op, proc.id, sets, jobs, jobFiles)
           n == IF eff.notifies THEN NotifyListeners(proc.listeners)
                ELSE [called |-> {}, threw |-> FALSE]
       IN  /\ sets' = eff.sets
           /\ jobs' = eff.jobs
           /\ jobFiles' = eff.jobFiles
           /\ proc' = [proc EXCEPT !.pc = "done", !.notified = eff.notifies,
                                   !.called = n.called, !.threw = n.threw]
    /\ UNCHANGED <<unknownLog, isPaused, isProcessing, isFileDownloadsPaused,
                   cancellationTokens, wk, pq, dl, cn, rm, calls, resumes, fired, phase,
                   locks, lastCall, sets0, settings, queuedAt403, clr>>

NextNotify == ManagerCall

SpecNotify == InitNotify /\ [][NextNotify]_vars

\* ----------------------------------------------- folder validation (SpecValidate)
MaxExpected == 3
MaxItems == 1

\* README contents as lines: empty, frontmatter first, none, a later '---' line
Contents == {<<>>, <<"---", "text">>, <<"text">>, <<"text", "---">>}

StartsWith(content) == Len(content) > 0 /\ content[1] = "---"

Includes(content) == \E k \in 1..Len(content) : content[k] = "---"

ItemChecks == [filename : {"file_1.zip"}, exists : BOOLEAN, isHtml : BOOLEAN]

\* ValidationWorkerInput
Payloads ==
    [readme : [exists : BOOLEAN, content : Contents],
     images : [enabled : BOOLEAN, expected : 0..MaxExpected, found : 0..MaxExpected,
               folderMissing : BOOLEAN],
     files : [enabled : BOOLEAN, folderMissing : BOOLEAN,
              items : UNION {[1..n -> ItemChecks] : n \in 0..MaxItems}]]

\* an error string: its text, with the two numbers of the images message
Message(text) == [text |-> text, expected |-> 0, found |-> 0]

MissingImages(expected, found) ==
    [text |-> "Missing images. Expected <expected>, found <found>.",
     expected |-> expected, found |-> found]

\* processValidationPayload line 6-14
ReadmeErrors(readme) ==
    IF ~readme.exists THEN <<Message("README.md is missing.")>>
    ELSE IF ~StartsWith(readme.content) \/ ~Includes(readme.content)
    THEN <<Message("README.md is missing frontmatter.")>>
    ELSE <<>>

\* (mutation) the images check asks for more files than expected
ImageErrorsStrict(images) ==
    IF ~images.enabled THEN <<>>
    ELSE IF images.folderMissing THEN <<Message("Images folder is missing.")>>
    ELSE IF images.found <= images.expected
    THEN <<MissingImages(images.expected, images.found)>>
    ELSE <<>>

\* processValidationPayload line 17-23
ImageErrors(images) ==
    IF ~images.enabled THEN <<>>
    ELSE IF images.folderMissing THEN <<Message("Images folder is missing.")>>
    ELSE IF images.found < images.expected
    THEN <<MissingImages(images.expected, images.found)>>
    ELSE <<>>

RECURSIVE ItemErrors(_)
ItemErrors(items) ==
    IF items = <<>> THEN <<>>
    ELSE (IF ~Head(items).exists THEN <<Message("Missing file: <filename>")>>
          ELSE IF Head(items).isHtml
          THEN <<Message("File <filename> is HTML content, not a valid file (possible login redirect).")>>
          ELSE <<>>) \o ItemErrors(Tail(items))

\* processValidationPayload line 26-38
FileErrors(files) ==
    IF ~files.enabled THEN <<>>
    ELSE IF files.folderMissing THEN <<Message("Files folder is missing.")>>
    ELSE ItemErrors(files.items)

ProcessValidationPayload(payload) ==
    ReadmeErrors(payload.readme) \o ImageErrors(payload.images) \o FileErrors(payload.files)

\* validateObject has built the payload of a folder; the validation worker will
\* answer or fail
InitValidate ==
    /\ InitPipe
    /\ locks = {}
    /\ sets0 = sets
    /\ settings = SmallPools
    /\ calls = 0 /\ fired = 0 /\ resumes = 0
    /\ \E payload \in Payloads, worker \in {"answers", "fails"} :
          proc = [payload |-> payload, worker |-> worker, pc |-> "start",
                  errors |-> <<>>, isValid |-> FALSE]

\* validateObject line 120-132: the errors of the worker, or of the same function
\* on the main thread when the worker failed; isValid
ValidateObject ==
    /\ proc.pc = "start"
    /\ LET errors == ProcessValidationPayload(proc.payload)
       IN  proc' = [proc EXCEPT !.pc = "done", !.errors = errors,
                                !.isValid = (Len(errors) = 0)]
    /\ UNCHANGED <<sets, unknownLog, jobs, jobFiles, isPaused, isProcessing,
                   isFileDownloadsPaused, cancellationTokens, wk, pq, dl, cn, rm, calls,
                   resumes, fired, phase, locks, lastCall, sets0, settings, queuedAt403, clr>>

NextValidate == ValidateObject

SpecValidate == InitValidate /\ [][NextValidate]_vars

\* ------------------------------------------------------------- properties
LightActive(st) == Len(st[S10]) + Len(st[S30]) + Len(st[S50])

\* nothing is running: no invocation of processQueue, no worker, no call in flight
Quiescent ==
    /\ wk = {}
    /\ \A i \in 1..MaxInv : pq[i].pc = "idle"
    /\ UserIdle

\* a rest set holds an id that the scheduler would dispatch if it ran now
ReadyWork ==
    \/ /\ Len(sets[R60]) > 0
       /\ ~isFileDownloadsPaused
       /\ Len(sets[S70]) < settings.maxConcurrentDownloads
    \/ /\ Len(sets[R40]) + Len(sets[R20]) + Len(sets[Q00]) > 0
       /\ LightActive(sets) < settings.maxConcurrentLightTasks

\* C1: in every reachable state each job id is a member of at most one stage-set
\* ('all' is not a stage-set)
C1_SingleStageMembership ==
    \A id \in Ids : Cardinality(InStage(sets, id)) <= 1

\* C2: at any time at most one stage worker is running for a given job id, also
\* when resumeDownloads is called while processQueue is in progress
C2_OneWorkerPerId ==
    \A id \in Ids : Cardinality({w \in wk : w.id = id}) <= 1

\* C3: in every reachable state 70_downloading holds at most maxConcurrentDownloads
\* ids and 10_validating, 30_preparing, 50_downloading_images together hold at most
\* maxConcurrentLightTasks ids
C3_PoolCaps ==
    /\ Len(sets[S70]) <= settings.maxConcurrentDownloads
    /\ LightActive(sets) <= settings.maxConcurrentLightTasks

\* C4: an id in a rest set whose pool has a free slot, with the scheduler not
\* paused, is dispatched without a new external trigger: the pipeline never comes
\* to rest (no invocation, no worker, no call in flight) with such an id waiting
C4_NoMissedWork ==
    ~(Quiescent /\ ~isPaused /\ ReadyWork)

Chain == <<Q00, S10, R20, S30, R40, S50, R60, S70, C80>>

\* the stage-set membership of id changes from nothing to 00_queued, or from one
\* stage of the chain to the next one
ChainStep(id) ==
    \E k \in 0..(Len(Chain) - 1) :
        /\ InStage(sets, id) = IF k = 0 THEN {} ELSE {Chain[k]}
        /\ InStage(sets', id) = {Chain[k + 1]}

\* C5: one id enqueued by downloadObject, nothing paused, no stage error, no other
\* call: its stage-set membership goes through 00_queued, 10_validating, ... ,
\* 70_downloading in that order, one at a time, without skipping or revisiting a
\* stage, and the pipeline does not come to rest before the id is in 80_completed
C5_ScenarioA ==
    /\ [][\A id \in Ids : InStage(sets', id) # InStage(sets, id) => ChainStep(id)]_vars
    /\ [](\A id \in Ids :
            (lastCall.op = "enqueue" /\ lastCall.id = id /\ Quiescent) =>
                InStage(sets, id) = {C80})

\* the pending steps started by cancelDownload(id) and the workers of id have ended
Settled(id) ==
    /\ cn[id] = 0 /\ rm[id] = 0 /\ dl[id] = "idle"
    /\ \A w \in wk : w.id # id
    /\ \A i \in 1..MaxInv : pq[i].pc = "idle"

CancelledWhileDownloadingImages(id) ==
    lastCall = [op |-> "cancel", id |-> id, at |-> {S50}, running |-> {"img"}, ids |-> {}]

\* C6: after cancelDownload(id) on a job in 50_downloading_images whose worker is
\* running, once everything has settled: id is not in 50_downloading_images, id is
\* in cancelled, the registry has no entry for id, id is in no rest or active set
C6_ScenarioD ==
    \A id \in Ids :
        (CancelledWhileDownloadingImages(id) /\ Settled(id)) =>
            /\ ~Has(sets[S50], id)
            /\ Has(sets["cancelled"], id)
            /\ jobs[id] = NoJob
            /\ InStage(sets, id) \cap (ActiveSets \cup RestSets) = {}

Terminal(id) ==
    \/ jobFiles[id] \in {C80, "failed", "cancelled"}
    \/ InStage(sets, id) \cap ({C80, "cancelled"} \cup FailureSets) # {}

\* C8: after a crash at any point (also between the two writes of a move) and the
\* startup that follows, every id with a job file that was not completed, failed or
\* cancelled is in 00_queued exactly once and in no other stage-set
C8_CrashRecovery ==
    phase = "recovered" =>
        \A id \in Ids :
            (jobFiles[id] # NoJob /\ ~Terminal(id)) =>
                /\ InStage(sets, id) = {Q00}
                /\ Len(SelectSeq(sets[Q00], LAMBDA x : x = id)) = 1

\* ---- the calls of SpecLock, taken one after the other
Ended(c) == proc[c].pc \in {"done", "failed"}

\* the files and the value returned when call p runs alone on st, log
Effect(p, st) ==
    CASE p.op = "add" -> Add(st, GetActualStateName(p.to), p.id)
      [] p.op = "remove" -> Remove(st, GetActualStateName(p.to), p.id)
      [] p.op = "move" -> Move(st, GetActualStateName(p.from), GetActualStateName(p.to), p.id)
      [] p.op = "pop" -> Pop(st, GetActualStateName(p.to))[1]
      [] OTHER -> st

LogEffect(p, log) == IF p.op = "addUnknownFailure" THEN Append(log, p.id) ELSE log

Returned(p, st) ==
    CASE p.op = "pop" -> Pop(st, GetActualStateName(p.to))[2]
      [] p.op = "getAll" -> GetAll(st, GetActualStateName(p.to))
      [] OTHER -> <<>>

\* call c, then call d, each with an effect only when it ended without a timeout
Serial(c, d) ==
    LET okc == proc[c].pc = "done"
        okd == proc[d].pc = "done"
        st1 == IF okc THEN Effect(proc[c], sets0) ELSE sets0
        log1 == IF okc THEN LogEffect(proc[c], <<>>) ELSE <<>>
    IN  [st |-> IF okd THEN Effect(proc[d], st1) ELSE st1,
         log |-> IF okd THEN LogEffect(proc[d], log1) ELSE log1,
         res |-> [x \in {c, d} |-> IF x = c
                                    THEN (IF okc THEN Returned(proc[c], sets0) ELSE <<>>)
                                    ELSE (IF okd THEN Returned(proc[d], st1) ELSE <<>>)]]

Outcome == [st |-> sets, log |-> unknownLog, res |-> [x \in Callers |-> proc[x].res]]

\* c and d run move(A, B, x) and move(B, A, y) on two different sets
Opposite(c, d) ==
    /\ c # d
    /\ proc[c].op = "move" /\ proc[d].op = "move"
    /\ proc[c].from = proc[d].to /\ proc[c].to = proc[d].from
    /\ GetActualStateName(proc[c].from) # GetActualStateName(proc[c].to)
    /\ proc[c].id # proc[d].id

\* C9: concurrent move(A,B,x) and move(B,A,y) on distinct sets: neither call waits
\* for a lock the other holds while the other waits for one it holds, neither ends
\* with the lock timeout, and when both have returned x is in B and y is in A
C9_OppositeMoves ==
    \A c \in Callers, d \in Callers :
        Opposite(c, d) =>
            /\ ~(Waiting(proc[c]) /\ Waiting(proc[d]))
            /\ proc[c].pc # "failed" /\ proc[d].pc # "failed"
            /\ (proc[c].pc = "done" /\ proc[d].pc = "done") =>
                   /\ Has(sets[GetActualStateName(proc[c].to)], proc[c].id)
                   /\ Has(sets[GetActualStateName(proc[d].to)], proc[d].id)

C9_Witness ==
    /\ Opposite(1, 2)
    /\ proc[1].pc = "done" /\ proc[2].pc = "done"
    /\ Has(sets0[GetActualStateName(proc[1].from)], proc[1].id)
    /\ Has(sets0[GetActualStateName(proc[2].from)], proc[2].id)

\* C10: every read and write of a set file is made by a caller that holds the
\* set's lock, no lock is held by two callers, and when both calls have ended the
\* files and the returned values are those of the two calls run one after the
\* other in some order (add(S,a) and add(S,b) leave both a and b in S)
C10_PerSetSerialization ==
    /\ \A c \in Callers :
          /\ proc[c].pc \in {"readFrom", "writeFrom"} =>
                 GetLockFilePath(proc[c].from) \in proc[c].held
          /\ proc[c].pc \in {"read", "write"} =>
                 GetLockFilePath(proc[c].to) \in proc[c].held
          /\ proc[c].held \subseteq locks
    /\ \A c \in Callers : \A d \in Callers \ {c} : proc[c].held \cap proc[d].held = {}
    /\ (\A c \in Callers : Ended(c)) => Outcome \in {Serial(1, 2), Serial(2, 1)}

C10_Witness ==
    /\ proc[1].op = "add" /\ proc[2].op = "add"
    /\ proc[1].pc = "done" /\ proc[2].pc = "done"
    /\ GetActualStateName(proc[1].to) = GetActualStateName(proc[2].to)
    /\ proc[1].id # proc[2].id
    /\ ~Has(sets0[GetActualStateName(proc[1].to)], proc[1].id)
    /\ ~Has(sets0[GetActualStateName(proc[1].to)], proc[2].id)
    /\ Has(sets[GetActualStateName(proc[1].to)], proc[1].id)
    /\ Has(sets[GetActualStateName(proc[1].to)], proc[2].id)

\* the step is the end of runErrorHandler for worker w
Handled(w) == w.pc = "e_store" /\ \A x \in wk' : ~(x.id = w.id /\ x.n = w.n)

\* C7: when a worker in active stage S has caught an error that is neither an
\* abort, an AuthenticationError nor an HttpError, then after handling the id is in
\* the failure_unknown log, is no longer in S and is in a terminal failure set
C7_UnknownErrorRouting ==
    [][\A w \in wk :
          (Handled(w) /\ w.err = "unknown") =>
              /\ Has(unknownLog', w.id)
              /\ ~Has(sets'[StageSet(w.stage)], w.id)
              /\ \E f \in FailureSets : Has(sets'[f], w.id)]_vars

\* ---- lock timeout
\* the files and the log after the calls that returned, call c left out
Others(c) ==
    LET d == CHOOSE x \in Callers : x # c
    IN  [st |-> IF proc[d].pc = "done" THEN Effect(proc[d], sets0) ELSE sets0,
         log |-> IF proc[d].pc = "done" THEN LogEffect(proc[d], <<>>) ELSE <<>>]

\* C11: a call whose acquireLock timed out has thrown: it has read nothing and
\* returned nothing, the set files are as if it had not been made, and no caller
\* is reading or writing a set file whose lock it does not hold
C11_LockTimeoutSurfaced ==
    /\ \A c \in Callers :
          /\ proc[c].pc \in {"readFrom", "writeFrom"} =>
                 GetLockFilePath(proc[c].from) \in proc[c].held
          /\ proc[c].pc \in {"read", "write"} =>
                 GetLockFilePath(proc[c].to) \in proc[c].held
          /\ proc[c].pc = "failed" => proc[c].ids = <<>> /\ proc[c].res = <<>>
    /\ \A c \in Callers :
          (proc[c].pc = "failed" /\ \A d \in Callers : Ended(d)) =>
              sets = Others(c).st /\ unknownLog = Others(c).log

\* a move whose two names are one set times out on its own lock while the other
\* caller's add has been written
C11_Witness ==
    /\ proc[1].pc = "failed" /\ proc[1].op = "move"
    /\ proc[2].pc = "done" /\ proc[2].op = "add"
    /\ sets # sets0

\* ---- Scenario B
\* C12: when a file fetch of runFileDownload answers 403, then once that worker has
\* finished the id is in failure_code_403 and not in 70_downloading, its status is
\* 'failed', the file-downloads-paused flag is set and the global pause flag is not;
\* a job that sat in 00_queued at that moment goes on through validating, preparing
\* and downloading_images: the pipeline does not come to rest before it is in
\* 60_images_downloaded
C12_ScenarioB ==
    /\ [][\A w \in wk :
            (Handled(w) /\ w.stage = "file" /\ w.err = "http403") =>
                /\ Has(sets'["failure_code_403"], w.id)
                /\ ~Has(sets'[S70], w.id)
                /\ jobs'[w.id] = "failed"
                /\ isFileDownloadsPaused'
                /\ ~isPaused']_vars
    /\ [](\A id \in queuedAt403 : Quiescent => InStage(sets, id) = {R60})

\* the step starts a file worker
FileWorkerStarted ==
    \E w \in wk' : w.stage = "file" /\ \A x \in wk : ~(x.id = w.id /\ x.n = w.n)

\* C13: while isFileDownloadsPaused is set no id is moved into 70_downloading and
\* no runFileDownload is started, whatever invocation of processQueue is in
\* progress when the flag is set
C13_FilePauseSuppressesHeavy ==
    [][isFileDownloadsPaused =>
          /\ \A id \in Ids : Has(sets'[S70], id) => Has(sets[S70], id)
          /\ ~FileWorkerStarted]_vars

\* the step starts a stage worker
WorkerStarted ==
    \E w \in wk' : \A x \in wk : ~(x.id = w.id /\ x.n = w.n)

\* C14: while isPaused is set no id is moved into an active set and no stage
\* worker is started, also when an invocation of processQueue was in progress
\* when pauseDownloads or handleAuthError set the flag
C14_GlobalPause ==
    [][isPaused =>
          /\ \A id \in Ids : \A a \in ActiveSets : Has(sets'[a], id) => Has(sets[a], id)
          /\ ~WorkerStarted]_vars

\* C15: when a worker in active stage S has caught an AuthenticationError or an
\* HttpError with status c, then after handling the id is no longer in S, is in
\* failure_auth / failure_code_<c> and in no other failure set, its status is
\* 'failed', and for an AuthenticationError the global pause flag is set
C15_TypedErrorRouting ==
    [][\A w \in wk :
          (Handled(w) /\ w.err \in {"auth", "http403", "http404"}) =>
              /\ ~Has(sets'[StageSet(w.stage)], w.id)
              /\ {f \in FailureSets : Has(sets'[f], w.id)} = {FailureState(w.err)}
              /\ jobs'[w.id] = "failed"
              /\ (w.err = "auth" => isPaused')]_vars

\* the step is the last of the asynchronous steps of retryDownload(id)
RetrySettles(id) ==
    /\ lastCall.op = "retry" /\ lastCall.id = id
    /\ rm[id] # 0 \/ dl[id] # "idle"
    /\ rm'[id] = 0 /\ dl'[id] = "idle"

\* C16: when the removeJob and the downloadObject of retryDownload(id) have both
\* ended, in whatever order their steps were taken, and the job has not failed
\* again: id is in no failure set and not in the active set in which it failed
\* (its only stage-set is 00_queued or a later stage of the pipeline), and it has a
\* registry entry and a job file
C16_Retry ==
    [][\A id \in Ids :
          (RetrySettles(id) /\ jobs'[id] # "failed") =>
              /\ InStage(sets', id) \cap FailureSets = {}
              /\ \E k \in 1..Len(Chain) : InStage(sets', id) = {Chain[k]}
              /\ jobs'[id] # NoJob
              /\ jobFiles'[id] # NoJob]_vars

\* the step is the last one of removeJob(id)
RemoveJobEnds(id) == rm[id] # 0 /\ rm'[id] = 0

\* C17: when removeJob(id) has completed (and was not started by retryDownload,
\* which enqueues the id again) the id has no registry entry, no job file and is a
\* member of no stage-set, whichever set it was in before
C17_RemoveJobPurge ==
    [][\A id \in Ids :
          (RemoveJobEnds(id) /\ lastCall.op # "retry") =>
              /\ jobs'[id] = NoJob
              /\ jobFiles'[id] = NoJob
              /\ InStage(sets', id) = {}]_vars

\* ---- bulk clearing
\* the last call was op, it has completed and nothing is running
Cleared(op) == lastCall.op = op /\ Quiescent

\* C18: after clearCompleted has completed and the workers have settled, every job
\* that was completed at the call has no registry entry, no job file and its id is
\* not in 80_completed
C18_ScenarioE ==
    Cleared("clearCompleted") =>
        \A id \in lastCall.ids :
            jobs[id] = NoJob /\ jobFiles[id] = NoJob /\ ~Has(sets[C80], id)

\* C19: after clearFailed has completed and the workers have settled, every job
\* whose status was 'failed' has no registry entry, no job file, and its id is in
\* no stage-set and not in the failure_unknown log
C19_ClearFailed ==
    Cleared("clearFailed") =>
        \A id \in lastCall.ids :
            /\ jobs[id] = NoJob /\ jobFiles[id] = NoJob
            /\ InStage(sets, id) = {}
            /\ ~Has(unknownLog, id)

\* ---- enqueue
\* C20: every job created by downloadObject(id) is, once the call has returned and
\* downloads are not paused, a member of a stage-set, and it is dispatched: the
\* pipeline is never at rest with a job still 'pending'; this also when the call
\* was made while downloads were paused and resumeDownloads was called afterwards
C20_EnqueueRecorded ==
    ~isPaused =>
        \A id \in Ids :
            /\ (jobs[id] # NoJob /\ dl[id] = "idle") => InStage(sets, id) # {}
            /\ Quiescent => jobs[id] # "pending"

\* ------------------------- FileStateService, one call after the other (SpecStore)
\* moveAcrossStates: move(state, toState, id) for each of fromStates in turn
RECURSIVE MoveAcrossStates(_, _, _, _)
MoveAcrossStates(st, fromStates, toState, id) ==
    IF fromStates = <<>> THEN st
    ELSE MoveAcrossStates(Move(st, Head(fromStates), toState, id), Tail(fromStates), toState, id)

\* the sets the calls of SpecStore name
StoreNames == {Q00, S10, "cancelled"}

\* the lists of candidate source sets
Candidates ==
    {<<a>> : a \in StoreNames}
    \cup {<<p[1], p[2]>> : p \in {x \in StoreNames \X StoreNames : x[1] # x[2]}}

StoreCalls ==
    {[op |-> "moveAcrossStates", from |-> c, to |-> t, id |-> i] :
        c \in Candidates, t \in StoreNames, i \in Ids}
    \cup {[op |-> o, from |-> <<a>>, to |-> t, id |-> i] :
        o \in {"add", "remove", "move", "pop"}, a \in StoreNames, t \in StoreNames, i \in Ids}

\* the set files after the call has run alone
StoreEffect(call, st) ==
    IF call.op = "moveAcrossStates"
    THEN MoveAcrossStates(st, call.from, call.to, call.id)
    ELSE Effect([call EXCEPT !.from = call.from[1]], st)

InitStore ==
    /\ InitMemory
    /\ \E q \in InitContents, v \in InitContents, x \in InitContents :
          sets = [n \in SetNames |-> IF n = Q00 THEN q ELSE IF n = S10 THEN v
                                     ELSE IF n = "cancelled" THEN x ELSE <<>>]
    /\ sets0 = sets
    /\ settings = SmallPools
    /\ unknownLog = <<>>
    /\ calls = MaxRepeats /\ fired = 0 /\ resumes = 0
    /\ locks = {}
    /\ \E call \in StoreCalls : proc = [call |-> call, pc |-> "start"]

\* the call runs from its first lock to its last release
StoreApply ==
    /\ proc.pc = "start"
    /\ sets' = StoreEffect(proc.call, sets)
    /\ proc' = [proc EXCEPT !.pc = "done"]
    /\ UNCHANGED <<unknownLog, locks>>
    /\ UNCHANGED lockFrame

\* the same call is made once more
StoreRepeat ==
    /\ proc.pc = "done"
    /\ calls > 0
    /\ calls' = calls - 1
    /\ sets0' = sets
    /\ proc' = [proc EXCEPT !.pc = "start"]
    /\ UNCHANGED <<sets, unknownLog, locks, jobs, jobFiles, isPaused, isProcessing,
                   isFileDownloadsPaused, cancellationTokens, wk, pq, dl, cn, rm, resumes,
                   fired, phase, lastCall, settings, queuedAt403, clr>>

NextStore == StoreApply \/ StoreRepeat

SpecStore == InitStore /\ [][NextStore]_vars

\* the candidate sets of the call that held id when it started
Sources(call, st) == {k \in 1..Len(call.from) : Has(st[call.from[k]], call.id)}

\* C21: moveAcrossStates(candidates, to, id), the target not being a candidate, only
\* relocates: when id is in none of the candidates every set, the target included,
\* is left unchanged; when id is in one candidate it ends in the target and in no
\* candidate
C21_MoveAcrossStatesRelocates ==
    (/\ proc.call.op = "moveAcrossStates" /\ proc.pc = "done"
     /\ \A k \in 1..Len(proc.call.from) : proc.call.from[k] # proc.call.to) =>
        /\ Sources(proc.call, sets0) = {} => sets = sets0
        /\ Cardinality(Sources(proc.call, sets0)) = 1 =>
               /\ Has(sets[proc.call.to], proc.call.id)
               /\ Sources(proc.call, sets) = {}

\* callers c and d both run add(S, id) for the same set and id
SameAdd(c, d) ==
    /\ c # d
    /\ proc[c].op = "add" /\ proc[d].op = "add"
    /\ GetActualStateName(proc[c].to) = GetActualStateName(proc[d].to)
    /\ proc[c].id = proc[d].id

Count(s, id) == Len(SelectSeq(s, LAMBDA x : x = id))

\* C22: add(S, id) writes S only when the list it read did not hold id; after two
\* add(S, id) calls, run one after the other or concurrently, S holds id exactly
\* once and its other members in their former order
C22_IdempotentAdd ==
    /\ \A c \in Callers :
          (proc[c].op = "add" /\ proc[c].pc = "write") =>
              ~Has(sets[GetStateFilePath(proc[c].to)], proc[c].id)
    /\ \A c \in Callers : \A d \in Callers :
          (SameAdd(c, d) /\ proc[c].pc = "done" /\ proc[d].pc = "done") =>
              LET S == GetActualStateName(proc[c].to)
              IN  /\ Count(sets[S], proc[c].id) = 1
                  /\ Without(sets[S], proc[c].id) = Without(sets0[S], proc[c].id)

\* both adds have returned and the set held another id before them
C22_Witness ==
    /\ SameAdd(1, 2)
    /\ proc[1].pc = "done" /\ proc[2].pc = "done"
    /\ sets0[GetActualStateName(proc[1].to)] # <<>>
    /\ ~Has(sets0[GetActualStateName(proc[1].to)], proc[1].id)
    /\ Has(sets[GetActualStateName(proc[1].to)], proc[1].id)

\* C23: 'all' holds every id that is in a stage-set or has a job file, in every
\* state reached by enqueue, cancel, removeJob, the audit and startup recovery
C23_KnownIdsSuperset ==
    \A id \in Ids :
        (jobFiles[id] # NoJob \/ \E n \in StageSets : Has(sets[n], id)) => Has(sets["all"], id)

\* after a crash and the startup recovery one id waits in 00_queued with its job
\* file and another one, known from the audit alone, is in 80_completed
C23_Witness ==
    /\ phase = "recovered"
    /\ \E id \in Ids : jobFiles[id] # NoJob /\ Has(sets[Q00], id) /\ Has(sets["all"], id)
    /\ \E id \in Ids : jobFiles[id] = NoJob /\ Has(sets[C80], id) /\ Has(sets["all"], id)

\* the step in which worker w, aborted by cancelDownload, ends after it caught the
\* AbortError
AbortEnds(w) ==
    /\ w.aborted
    /\ w.err = "abort" \/ w.pc \in {"p_fetch", "p_folders", "i_images"}
    /\ \A x \in wk' : ~(x.id = w.id /\ x.n = w.n)

\* C24: when a stage worker ends with an AbortError after cancelDownload, the
\* error handler adds its id to no failure set and to no failure log, sets no pause
\* flag and does not mark the job 'failed'
C24_CancellationIsNotAnError ==
    [][\A w \in wk :
          AbortEnds(w) =>
              /\ \A f \in FailureSets : sets'[f] = sets[f]
              /\ unknownLog' = unknownLog
              /\ isPaused' = isPaused
              /\ isFileDownloadsPaused' = isFileDownloadsPaused
              /\ jobs'[w.id] = jobs[w.id]
              /\ jobFiles'[w.id] = jobFiles[w.id]]_vars

\* a preparation worker was running when its id was cancelled and has ended neither
\* by its move nor with a failure record
C24_Witness ==
    /\ lastCall.op = "cancel"
    /\ lastCall.running = {"prep"}
    /\ wk = {}
    /\ unknownLog = <<>>
    /\ InStage(sets, lastCall.id) \subseteq {"cancelled"}

\* the step in which the image worker w ends
ImageWorkerEnds(w) == w.stage = "img" /\ \A x \in wk' : ~(x.id = w.id /\ x.n = w.n)

\* C25: with no abort, an image worker ends with its id moved from
\* 50_downloading_images to 60_images_downloaded, whatever the image fetches
\* answered: the id is in no failure set, nothing is added to the failure log and
\* the job is not marked 'failed'
C25_ImageFailuresNonFatal ==
    [][\A w \in wk :
          ImageWorkerEnds(w) =>
              /\ ~Has(sets'[S50], w.id)
              /\ Has(sets'[R60], w.id)
              /\ \A f \in FailureSets : ~Has(sets'[f], w.id)
              /\ unknownLog' = unknownLog
              /\ jobs'[w.id] # "failed"]_vars

\* the declared files whose target path is on disk
Present == {k \in 1..Len(proc.items) : proc.items[k].exists}

\* C26: the file stage makes no request for a declared file that is on disk, counts
\* it as satisfied and does not fail because of it; on a folder that holds every
\* declared file it makes no request at all and the job ends in 80_completed
C26_ResumableFetch ==
    proc.pc = "ran" =>
        /\ Present \cap proc.res.requested = {}
        /\ proc.res.failedAt \notin Present
        /\ \A k \in Present :
              (/\ proc.items[k].url
               /\ settings.useDirectDownload
               /\ proc.res.failedAt = 0 \/ k < proc.res.failedAt) => k \in proc.res.satisfied
        /\ Present = 1..Len(proc.items) =>
              /\ proc.res.requested = {}
              /\ proc.res.outcome = "ok"
              /\ wk = {} => Has(sets[C80], 1) /\ jobs[1] = C80

\* C27: when a mutating call of the registry notifies the listeners, every
\* subscribed listener is called, also when one of them throws, and the call
\* returns normally
C27_ListenerIsolation ==
    (proc.pc = "done" /\ proc.notified) =>
        /\ proc.called = 1..Len(proc.listeners)
        /\ ~proc.threw

\* the README is there with frontmatter and the file checks pass
ReadmeAndFilesPass ==
    /\ proc.payload.readme.exists
    /\ StartsWith(proc.payload.readme.content)
    /\ \/ ~proc.payload.files.enabled
       \/ /\ ~proc.payload.files.folderMissing
          /\ \A k \in 1..Len(proc.payload.files.items) :
                proc.payload.files.items[k].exists /\ ~proc.payload.files.items[k].isHtml

\* C28: with the README and the files in order, images enabled and the images
\* folder present, the errors are the one message 'Missing images. Expected e,
\* found f.' when f < e and none when f >= e; isValid is true exactly when the
\* error list is empty
C28_ScenarioC ==
    proc.pc = "done" =>
        /\ (proc.isValid <=> proc.errors = <<>>)
        /\ (/\ ReadmeAndFilesPass
            /\ proc.payload.images.enabled
            /\ ~proc.payload.images.folderMissing) =>
               proc.errors = IF proc.payload.images.found < proc.payload.images.expected
                             THEN <<MissingImages(proc.payload.images.expected,
                                                  proc.payload.images.found)>>
                             ELSE <<>>

\* Scenario C: 3 images expected, 2 found
C28_Witness ==
    /\ proc.pc = "done"
    /\ ReadmeAndFilesPass
    /\ proc.payload.images.enabled
    /\ ~proc.payload.images.folderMissing
    /\ proc.payload.images.expected = 3
    /\ proc.payload.images.found = 2
    /\ proc.errors = <<MissingImages(3, 2)>>
    /\ ~proc.isValid

\* caller c has returned from a move while the other caller has not begun or only
\* reads (getAll)
MoveAlone(c) ==
    /\ proc[c].op = "move"
    /\ proc[c].pc = "done"
    /\ \A d \in Callers \ {c} : proc[d].pc = "acq1" \/ proc[d].op = "getAll"

InBody == {i \in 1..MaxInv : pq[i].pc # "idle"}

\* C30: at most one invocation of processQueue is inside the dispatch body at a
\* time, and isProcessing is true exactly while one is, whatever triggers arrive,
\* resumeDownloads included
C30_ReentrancyGuard ==
    /\ Cardinality(InBody) <= 1
    /\ isProcessing <=> InBody # {}

\* a stage worker of this stage is started in this step
Starts(stage) ==
    \E w \in wk' : w.stage = stage /\ \A x \in wk : ~(x.id = w.id /\ x.n = w.n)

\* C31: an iteration of the light loop reads 40_prepared first and dispatches its
\* first id when there is one, reads 20_validated only after it found 40_prepared
\* empty and 00_queued only after it found 20_validated empty too; validation is
\* started only by an iteration that came that way
C31_LightPriority ==
    [][/\ \A i \in 1..MaxInv :
             pq'[i].pc # pq[i].pc =>
                 /\ pq'[i].pc = "m1" =>
                        pq[i].pc = "r1" /\ sets[R40] # <<>> /\ pq'[i].oid = Head(sets[R40])
                 /\ pq'[i].pc = "r2" => pq[i].pc = "r1" /\ sets[R40] = <<>>
                 /\ pq'[i].pc = "m2" =>
                        pq[i].pc = "r2" /\ sets[R20] # <<>> /\ pq'[i].oid = Head(sets[R20])
                 /\ pq'[i].pc = "r3" => pq[i].pc = "r2" /\ sets[R20] = <<>>
                 /\ pq'[i].pc = "m3" =>
                        pq[i].pc = "r3" /\ sets[Q00] # <<>> /\ pq'[i].oid = Head(sets[Q00])
       /\ Starts("img") => \E i \in 1..MaxInv : pq[i].pc = "m1" /\ pq'[i].pc # "m1"
       /\ Starts("prep") => \E i \in 1..MaxInv : pq[i].pc = "m2" /\ pq'[i].pc # "m2"
       /\ Starts("val") => \E i \in 1..MaxInv : pq[i].pc = "m3" /\ pq'[i].pc # "m3"]_vars

\* an iteration is about to dispatch from 20_validated while an id waits in 00_queued
C31_Witness ==
    \E i \in 1..MaxInv : pq[i].pc = "m2" /\ sets[Q00] # <<>> /\ sets[R40] = <<>>

\* C32: an invocation that has started a file download and still has a free heavy
\* slot while 60_images_downloaded is not empty goes on to read that set again: the
\* heavy dispatch is repeated until the slots or the set run out
C32_HeavyFill ==
    [][\A i \in 1..MaxInv :
          (/\ pq[i].pc = "hmove"
           /\ pq'[i].pc # "hmove"
           /\ pq[i].slots - 1 > 0
           /\ sets'[R60] # <<>>) => pq'[i].pc = "h60"]_vars

\* ------------------------------------------------------------ the worker epilogue
\* runErrorHandler throws (a lock timeout in addUnknownFailure or move, a failing
\* saveJob in updateJob): nothing is stored and the finally block runs
ErrorHandlerThrows(w) ==
    /\ w.pc = "e_store"
    /\ Finally(w, isPaused)
    /\ UNCHANGED <<sets, unknownLog, jobs, jobFiles, isPaused, isFileDownloadsPaused, dl, cn, rm,
                   calls, resumes, fired, phase, locks, proc, lastCall, sets0, settings,
                   queuedAt403, clr>>

NextEpilogue == Next \/ (\E w \in wk : ErrorHandlerThrows(w))

SpecEpilogue == Init /\ [][NextEpilogue]_vars

\* the worker w is gone after this step
Ends(w) == \A x \in wk' : ~(x.id = w.id /\ x.n = w.n)

\* this step holds exactly one call of processQueue, as far as its first await
OneProcessQueue ==
    IF isPaused \/ isProcessing
    THEN pq' = pq /\ isProcessing' = isProcessing
    ELSE /\ isProcessing'
         /\ \E i \in 1..MaxInv :
               /\ pq[i].pc = "idle"
               /\ pq'[i].pc = "h70"
               /\ \A k \in (1..MaxInv) \ {i} : pq'[k] = pq[k]

\* C33: the step in which a stage worker ends, whatever its outcome, leaves no
\* cancellation token for its id and holds exactly one call of processQueue
C33_Epilogue ==
    [][\A w \in wk : Ends(w) => cancellationTokens'[w.id] = 0 /\ OneProcessQueue]_vars

\* the error handler of a worker threw: its id is still in the active set, nothing was
\* logged, the token is gone and the invocation the finally block started is running
C33_Witness ==
    /\ wk = {}
    /\ unknownLog = <<>>
    /\ \E id \in Ids :
          /\ Has(sets[S10], id)
          /\ cancellationTokens[id] = 0
          /\ jobs[id] = S10
    /\ \E i \in 1..MaxInv : pq[i].pc = "h70"

C35_WriteThrough ==
    Quiescent => \A id \in Ids : jobFiles[id] = jobs[id]

\* C36: a call that has returned or thrown holds no lock directory, and every lock
\* directory that exists is held by a call still in progress
C36_NoLeakedLock ==
    /\ \A c \in Callers : proc[c].pc \in {"done", "failed"} => proc[c].held = {}
    /\ \A l \in locks : \E c \in Callers : l \in proc[c].held /\ proc[c].pc \notin {"done", "failed"}

\* C37: an id is in an active set only while a stage worker for it is running; when
\* no worker is left the four active sets are empty
C37_ActiveMirrorsWorkers ==
    \A a \in ActiveSets : \A id \in Ids :
        Has(sets[a], id) => \E w \in wk : w.id = id /\ StageSet(w.stage) = a

\* C38: after cancelDownload(id), called while id rested in 20_validated, 40_prepared
\* or 60_images_downloaded with no worker running for it, has returned and its
\* removeJob has ended, id is in no rest set and in no active set
C38_CancelFromRest ==
    (/\ lastCall.op = "cancel"
     /\ lastCall.at \cap {R20, R40, R60} # {}
     /\ lastCall.running = {}
     /\ cn[lastCall.id] = 0
     /\ rm[lastCall.id] = 0)
        => \A n \in RestSets \cup ActiveSets : ~Has(sets[n], lastCall.id)

\* C39: a move never waits for a lock directory that it holds itself, nor for one held
\* by another call that in turn waits for a lock directory this move holds
C39_ConsistentLockOrder ==
    \A c \in Callers :
        (proc[c].op = "move" /\ Waiting(proc[c])) =>
            /\ GetLockFilePath(LockState(proc[c])) \notin proc[c].held
            /\ \A d \in Callers \ {c} :
                  ~(/\ GetLockFilePath(LockState(proc[c])) \in proc[d].held
                    /\ Waiting(proc[d])
                    /\ GetLockFilePath(LockState(proc[d])) \in proc[c].held)

\* ------------------------------------------------------------ the order of a set file
\* add, remove, move, pop and the scheduler's dispatch on set files that hold up to
\* MaxFifoIds ids, MaxFifoCalls calls one after the other
FifoIds == 1..MaxFifoIds

FifoLists ==
    {s \in UNION {[1..n -> FifoIds] : n \in 0..MaxFifoIds} :
        \A i \in 1..Len(s) : \A j \in 1..Len(s) : i # j => s[i] # s[j]}

FifoSets == {Q00, S10, R20, S30}

fifoFrame == <<unknownLog, jobs, jobFiles, isPaused, isProcessing, isFileDownloadsPaused,
               cancellationTokens, wk, pq, dl, cn, rm, resumes, fired, phase, locks, lastCall,
               sets0, settings, queuedAt403, clr>>

InitFifo ==
    /\ InitMemory
    /\ \E q \in FifoLists, v \in FifoLists :
          sets = [n \in SetNames |-> IF n = Q00 THEN q ELSE IF n = R20 THEN v ELSE <<>>]
    /\ sets0 = sets
    /\ unknownLog = <<>>
    /\ settings = SmallPools
    /\ locks = {}
    /\ calls = MaxFifoCalls /\ fired = 0 /\ resumes = 0
    /\ proc = [op |-> "none", id |-> 0, set |-> Q00]

FifoAdd(n, id) ==
    /\ calls > 0
    /\ sets' = Add(sets, n, id)
    /\ proc' = [op |-> "add", id |-> id, set |-> n]
    /\ calls' = calls - 1
    /\ UNCHANGED fifoFrame

FifoRemove(n, id) ==
    /\ calls > 0
    /\ sets' = Remove(sets, n, id)
    /\ proc' = [op |-> "remove", id |-> id, set |-> n]
    /\ calls' = calls - 1
    /\ UNCHANGED fifoFrame

FifoMove(from, to, id) ==
    /\ calls > 0
    /\ sets' = Move(sets, from, to, id)
    /\ proc' = [op |-> "move", id |-> id, set |-> to]
    /\ calls' = calls - 1
    /\ UNCHANGED fifoFrame

FifoPop(n) ==
    /\ calls > 0
    /\ sets' = Pop(sets, n)[1]
    /\ proc' = [op |-> "pop", id |-> IF Pop(sets, n)[2] = <<>> THEN 0 ELSE Pop(sets, n)[2][1],
                set |-> n]
    /\ calls' = calls - 1
    /\ UNCHANGED fifoFrame

\* one iteration of the light loop on the k-th rest set: getAll(rest)[0], then the move
FifoDispatch(k) ==
    /\ calls > 0
    /\ LET ready == GetAll(sets, LightOrder[k].rest)
       IN  /\ Len(ready) > 0
           /\ sets' = Move(sets, LightOrder[k].rest, LightOrder[k].active, ready[1])
           /\ proc' = [op |-> "dispatch", id |-> ready[1], set |-> LightOrder[k].rest]
    /\ calls' = calls - 1
    /\ UNCHANGED fifoFrame

NextFifo ==
    \/ \E n \in {Q00, R20}, id \in FifoIds : FifoAdd(n, id)
    \/ \E n \in {Q00, R20}, id \in FifoIds : FifoRemove(n, id)
    \/ \E from \in FifoSets, to \in FifoSets, id \in FifoIds : FifoMove(from, to, id)
    \/ \E n \in {Q00, R20} : FifoPop(n)
    \/ \E k \in {2, 3} : FifoDispatch(k)

SpecFifo == InitFifo /\ [][NextFifo]_vars

\* the place of an id in a list
Pos(s, x) == CHOOSE i \in 1..Len(s) : s[i] = x /\ \A k \in 1..(i - 1) : s[k] # x

\* the ids of old that are still in new keep their order, and every id that is in
\* new only comes after them
KeepsOrder(old, new) ==
    \A i \in 1..Len(new) : \A j \in 1..Len(new) :
        i < j =>
            /\ (Has(old, new[i]) /\ Has(old, new[j])) => Pos(old, new[i]) < Pos(old, new[j])
            /\ Has(old, new[j]) => Has(old, new[i])

====
